---- MODULE Spec2Model ----
(***************************************************************************)
(* A model of gunrock's CSR graph store (src/gunrock/csr.cuh): the store   *)
(* Csr<VertexId, Value, SizeT>, its OpenMP builder FromCoo, the delta      *)
(* compression appended to the builder, FromScratch / FromCsr / Free, and  *)
(* the Matrix-Market reader ReadMarketStream.  VertexId and SizeT are the  *)
(* 32-bit int of the test driver (src/tests/bc/test_bc.cu:801-803).        *)
(*                                                                         *)
(* C arrays are functions over 0..n-1; a sequence s is read 0-based with   *)
(* At(s, i).                                                               *)
(***************************************************************************)
EXTENDS Integers, Sequences, FiniteSets, TLC

\* ------------------------------------------------------------------ bounds
MaxNodes == 3
MaxEdges == 3
MaxThreads == 3
MaxBuilds == 2
MaxFrees == 2

\* ------------------------------------------------------- program constants
IntBits == 32
ByteBits == 8
NULL == 0
Unset == 0 - 1

VARIABLES
    \* the store (struct Csr)
    nodes, edges, out_nodes, average_degree, column_bytes, pinned,
    ptr,
    row_offsets, comp_row_offsets, req_bytes,
    column_indices, comp_column_indices, edge_values,
    \* the process heap: every block ever allocated, with how it was
    \* allocated and how (if at all) it was released
    heap,
    \* the arguments of the running FromCoo call
    coo, coo_nodes, ordered_rows, load_edge_values,
    \* the OpenMP parallel region of FromCoo
    num_threads, tpc, new_coo, edge_counts, edge_offsets, pointer,
    \* one row handed to the compression: its id, its column indices, and
    \* the req_bytes entry and the bytes of its slots that come out
    rowId, rowCols, rowReq, rowBytes,
    \* the binary cache file of WriteBinary / FromCsr
    cache,
    \* the last operation completed on the store, the FromScratch calls so
    \* far, and the Free calls since the last of them
    last, builds, frees,
    \* ReadMarketStream: the lines of the stream, the flags of the call, the
    \* position of the call and the value it returned
    f_in, undirected, reversed, mpc, retval,
    \* RunTests: the position of the driver, its configuration (src,
    \* quick_mode, whether ref_filename is given), the sources of the sweep
    \* and the index of the current one, the calls issued so far and how
    \* many of them reported an error
    rpc, src, quick_mode, ref_file, sources, cur, calls, failures,
    \* the accumulators on the device and their copy on the host
    bc_values, h_bc_values,
    \* the reference arrays, which of them have been written and which
    \* have been compared
    reference_bc_values, reference_sigmas, reference_labels, written, compared,
    \* the locals of ReferenceBC's single-source search
    \* (back_iter is the iter of the backward loop)
    frontier, search_depth, back_iter,
    \* what CheckValue returned, and the cache file name of BuildMarketGraph
    check_value, output_file,
    \* control
    pc, fault

storeVars == <<nodes, edges, out_nodes, average_degree, column_bytes, pinned,
               ptr, row_offsets, comp_row_offsets, req_bytes,
               column_indices, comp_column_indices, edge_values>>
argVars == <<coo, coo_nodes, ordered_rows, load_edge_values>>
ompVars == <<num_threads, tpc, new_coo, edge_counts, edge_offsets, pointer>>
rowVars == <<rowId, rowCols, rowReq, rowBytes>>
lifeVars == <<last, builds, frees>>
marketVars == <<f_in, undirected, reversed, mpc, retval>>
driverVars == <<rpc, src, quick_mode, ref_file, sources, cur, calls, failures,
                bc_values, h_bc_values>>
searchVars == <<frontier, search_depth, back_iter>>
referenceVars == <<reference_bc_values, reference_sigmas, reference_labels,
                   written, compared, searchVars>>
testVars == <<driverVars, referenceVars, check_value, output_file>>
outerVars == <<rowVars, cache, lifeVars, marketVars, testVars>>
vars == <<storeVars, heap, argVars, ompVars, outerVars, pc, fault>>

\* ----------------------------------------------------------------- helpers
At(s, i) == s[i + 1]

Pow2(n) == 2 ^ n

\* the largest and the smallest value of the 32-bit int
MaxInt == (Pow2(IntBits - 2) - 1) * 2 + 1
MinInt == (0 - MaxInt) - 1

\* m * 2 in the 32-bit int, for 0 <= m <= MaxInt: the product wraps around
\* when it does not fit (2m - 2^32)
TimesTwo(m) ==
    IF m < Pow2(IntBits - 2) THEN m * 2
    ELSE (m - Pow2(IntBits - 2)) * 2 + MinInt

Abs(x) == IF x < 0 THEN 0 - x ELSE x

ArrayNames == {"row_offsets", "comp_row_offsets", "req_bytes", "column_indices",
               "comp_column_indices", "edge_values", "node_values"}

\* What a word holds that the program has not written (a fresh block, a
\* member the constructor leaves unset, a word outside a block): any value.
\* JunkValue stands for it where the program never reads the word;
\* where it is read, the read returns any of FreshValues.
JunkValue == MaxEdges + 4
FreshValues == {0, JunkValue}

NoFault == [oob |-> FALSE, nullderef |-> FALSE]

\* ------------------------------------------------------------------- heap
\* cudaHostAlloc / malloc: a new live block at the end of the heap
Alloc(h, how) == Append(h, [by |-> how, live |-> TRUE, released |-> 0, with |-> "none"])

\* cudaFreeHost / free of block b
Release(h, b, how) ==
    [h EXCEPT ![b] = [@ EXCEPT !.live = FALSE, !.released = @ + 1, !.with = how]]

Fresh(n, v) == [i \in 0 .. n - 1 |-> v]

\* ------------------------------------------------- Csr::FromScratch (l.101)
\* The arrays FromScratch requests, in the order it requests them.
Requested(loadEdge, loadNode) ==
    <<"row_offsets", "comp_row_offsets", "req_bytes", "column_indices",
      "comp_column_indices">>
    \o (IF loadNode THEN <<"node_values">> ELSE <<>>)
    \o (IF loadEdge THEN <<"edge_values">> ELSE <<>>)

\* The allocator of each array: cudaHostAlloc when pinned, malloc otherwise.
AllocatorOf(isPinned) == IF isPinned THEN "cudaHostAlloc" ELSE "malloc"

\* l.107-160: the pinned branch checks every allocation and calls exit(1)
\* on a failure; l.161-174: the non-pinned branch checks none
Exits(failing) == pinned /\ failing # "none"

RECURSIVE AllocAll(_, _, _, _)
\* allocate the arrays of req from position k on; the allocation of the
\* array named failing (if any) returns no block: the pinned branch stops
\* there, the non-pinned branch stores the null pointer and goes on
AllocAll(req, k, st, failing) ==
    IF k > Len(req) THEN st
    ELSE IF req[k] = failing
         THEN IF pinned THEN st
              ELSE AllocAll(req, k + 1, [st EXCEPT !.p[req[k]] = NULL], failing)
         ELSE AllocAll(req, k + 1,
                       [h |-> Alloc(st.h, AllocatorOf(pinned)),
                        p |-> [st.p EXCEPT ![req[k]] = Len(st.h) + 1]],
                       failing)

\* FromScratch<loadEdge, loadNode>(n, e), the allocation of the array named
\* failing (if any) failing.
\* The non-pinned branch assigns NULL to a value array that is not loaded;
\* the pinned branch leaves its pointer as it was.
FromScratchBlocks(loadEdge, loadNode, failing) ==
    LET p0 == IF pinned THEN ptr
              ELSE [ptr EXCEPT !["node_values"] = IF loadNode THEN @ ELSE NULL,
                               !["edge_values"] = IF loadEdge THEN @ ELSE NULL]
    IN  AllocAll(Requested(loadEdge, loadNode), 1, [h |-> heap, p |-> p0], failing)

\* the store after FromScratch; fill is what the fresh blocks hold
FromScratch(n, e, loadEdge, loadNode, fill, failing) ==
    LET st == FromScratchBlocks(loadEdge, loadNode, failing)
    IN  /\ nodes' = n
        /\ edges' = e
        /\ heap' = st.h
        /\ ptr' = st.p
        /\ row_offsets' = Fresh(n + 1, fill)
        /\ comp_row_offsets' = Fresh(n + 1, fill)
        /\ req_bytes' = Fresh(n + 1, fill)
        /\ column_indices' = Fresh(e, fill)
        /\ comp_column_indices' = Fresh(e, fill)
        /\ edge_values' = IF loadEdge THEN Fresh(e, fill) ELSE edge_values

\* ---------------------------------------------- util::omp_sort (not in src)
\* RowFirstTupleCompare: by row, then by column
RowFirstTupleCompare(a, b) ==
    \/ a.row < b.row
    \/ a.row = b.row /\ a.col < b.col

RECURSIVE InsertSorted(_, _)
InsertSorted(s, x) ==
    IF s = <<>> THEN <<x>>
    ELSE IF RowFirstTupleCompare(x, s[Len(s)])
         THEN Append(InsertSorted(SubSeq(s, 1, Len(s) - 1), x), s[Len(s)])
         ELSE Append(s, x)

RECURSIVE omp_sort(_)
\* a stable sort by (row, column)
omp_sort(s) ==
    IF s = <<>> THEN <<>>
    ELSE InsertSorted(omp_sort(SubSeq(s, 1, Len(s) - 1)), s[Len(s)])

\* ---------------------------------------------------- Csr::FromCoo (l.373)
Threads == 0 .. num_threads - 1

edge_start(t) == (Len(coo) * t) \div num_threads
edge_end(t) == (Len(coo) * (t + 1)) \div num_threads
node_start(t) == (coo_nodes * t) \div num_threads
node_end(t) == (coo_nodes * (t + 1)) \div num_threads

\* the last tuple of a run survives instead of the first
SurvivesLast(c, edge) ==
    LET col == At(c, edge).col
        row == At(c, edge).row
    IN  /\ col # row
        /\ \/ edge = Len(c) - 1
           \/ col # At(c, edge + 1).col
           \/ row # At(c, edge + 1).row

\* l.419: the tuple at edge survives the compaction
Survives(c, edge) ==
    LET col == At(c, edge).col
        row == At(c, edge).row
    IN  /\ col # row
        /\ \/ edge = 0
           \/ col # At(c, edge - 1).col
           \/ row # At(c, edge - 1).row

RECURSIVE CompactRange(_, _, _)
\* l.415-426: new_coo of the edge range [from, to)
CompactRange(c, from, to) ==
    IF from >= to THEN <<>>
    ELSE LET rest == CompactRange(c, from, to - 1)
         IN  IF Survives(c, to - 1) THEN Append(rest, At(c, to - 1)) ELSE rest

\* a write of v to a[i]; a write outside the block is undefined behaviour,
\* modelled as leaving the array alone (the fault is recorded by the action)
Store(a, i, v) == IF i \in DOMAIN a THEN [a EXCEPT ![i] = v] ELSE a

\* every array of as is allocated
NonNull(as) == \A a \in as : ptr[a] # NULL

\* l.394-411: FromScratch, the sort, and the start of the parallel region
\* with p threads.  edge_offsets and edge_counts are stack arrays.
FromCooEnter(c, n, ordered, p, failing) ==
    /\ FromScratch(n, Len(c), load_edge_values, FALSE, JunkValue, failing)
    /\ coo_nodes' = n
    /\ ordered_rows' = ordered
    /\ IF Exits(failing)
       THEN /\ pc' = "exited"
            /\ coo' = c
            /\ UNCHANGED ompVars
       ELSE /\ coo' = IF ordered THEN c ELSE omp_sort(c)
            /\ num_threads' = p
            /\ tpc' = [t \in 0 .. p - 1 |-> "compact"]
            /\ new_coo' = [t \in 0 .. p - 1 |-> <<>>]
            /\ edge_counts' = [t \in 0 .. p - 1 |-> JunkValue]
            /\ edge_offsets' = [t \in 0 .. p |-> JunkValue]
            /\ pointer' = [t \in 0 .. p - 1 |-> Unset]
            /\ pc' = "parallel"
    /\ builds' = builds + 1
    /\ frees' = 0
    /\ UNCHANGED <<out_nodes, average_degree, column_bytes, pinned,
                   load_edge_values, rowVars, cache, last, fault>>

\* the direct call csr.FromCoo<LOAD_EDGE_VALUES>(file, coo, nodes, edges, ordered_rows)
FromCoo ==
    /\ pc = "ready"
    /\ builds < MaxBuilds
    /\ \E p \in 1 .. MaxThreads : FromCooEnter(coo, coo_nodes, ordered_rows, p, "none")
    /\ UNCHANGED <<marketVars, testVars>>

\* l.412-429: the compaction of the thread's edge range, and the reset of
\* its node range
CompactReady(t) == pc = "parallel" /\ tpc[t] = "compact"

CompactDerefs(t) == IF node_start(t) < node_end(t) THEN {"row_offsets"} ELSE {}

Compact(t) ==
    /\ CompactReady(t)
    /\ NonNull(CompactDerefs(t))
    /\ LET mine == CompactRange(coo, edge_start(t), edge_end(t))
       IN  /\ new_coo' = [new_coo EXCEPT ![t] = mine]
           /\ edge_counts' = [edge_counts EXCEPT ![t] = Len(mine)]
    /\ row_offsets' = [i \in DOMAIN row_offsets |->
                          IF node_start(t) <= i /\ i < node_end(t)
                          THEN Unset ELSE row_offsets[i]]
    /\ tpc' = [tpc EXCEPT ![t] = "barrier1"]
    /\ UNCHANGED <<nodes, edges, out_nodes, average_degree, column_bytes, pinned,
                   ptr, comp_row_offsets, req_bytes, column_indices,
                   comp_column_indices, edge_values, heap, argVars,
                   num_threads, edge_offsets, pointer, outerVars, pc, fault>>

RECURSIVE PrefixSum(_, _)
\* l.434-436: edge_offsets[i]
PrefixSum(counts, i) == IF i = 0 THEN 0 ELSE PrefixSum(counts, i - 1) + counts[i - 1]

\* l.431-439: the barrier and the single section
SingleReady == pc = "parallel" /\ \A t \in Threads : tpc[t] = "barrier1"

Single ==
    /\ SingleReady
    /\ NonNull({"row_offsets"})
    /\ edge_offsets' = [i \in 0 .. num_threads |-> PrefixSum(edge_counts, i)]
    /\ row_offsets' = Store(row_offsets, 0, 0)
    /\ tpc' = [t \in Threads |-> "write"]
    /\ UNCHANGED <<nodes, edges, out_nodes, average_degree, column_bytes, pinned,
                   ptr, comp_row_offsets, req_bytes, column_indices,
                   comp_column_indices, edge_values, heap, argVars,
                   num_threads, new_coo, edge_counts, pointer, outerVars, pc, fault>>

\* l.442
first_row(t) == IF Len(new_coo[t]) > 0 THEN At(new_coo[t], 0).row ELSE Unset

RECURSIVE WriteEdges(_, _, _)
\* l.445-463: the writes of the thread's surviving edges 0 .. k-1
WriteEdges(t, k, st) ==
    IF k = 0 THEN st
    ELSE LET before == WriteEdges(t, k - 1, st)
             edge == k - 1
             edge_ == edge + edge_offsets[t]
             row == At(new_coo[t], edge).row
         IN  [ro |-> Store(before.ro, row + 1, edge_ + 1),
              pt |-> IF row = first_row(t) THEN edge_ + 1 ELSE before.pt,
              ci |-> Store(before.ci, edge_, At(new_coo[t], edge).col),
              ev |-> IF load_edge_values
                     THEN Store(before.ev, edge_, At(new_coo[t], edge).val)
                     ELSE before.ev,
              oob |-> \/ before.oob
                      \/ row + 1 \notin DOMAIN before.ro
                      \/ edge_ \notin DOMAIN before.ci]

\* l.441-463: the write pass of thread t.  Two threads whose ranges share a
\* row both write that row's row_offsets entry without synchronization; the
\* entry keeps the value of the thread that writes last, so the threads'
\* passes are taken one after the other in either order.
WritePassReady(t) == pc = "parallel" /\ tpc[t] = "write"

WritePassDerefs(t) ==
    IF Len(new_coo[t]) = 0 THEN {}
    ELSE {"row_offsets", "column_indices"}
         \cup (IF load_edge_values THEN {"edge_values"} ELSE {})

WritePass(t) ==
    /\ WritePassReady(t)
    /\ NonNull(WritePassDerefs(t))
    /\ LET st == WriteEdges(t, Len(new_coo[t]),
                            [ro |-> row_offsets, pt |-> Unset, ci |-> column_indices,
                             ev |-> edge_values, oob |-> FALSE])
       IN  /\ row_offsets' = st.ro
           /\ column_indices' = st.ci
           /\ edge_values' = st.ev
           /\ pointer' = [pointer EXCEPT ![t] = st.pt]
           /\ fault' = [fault EXCEPT !.oob = @ \/ st.oob]
    /\ tpc' = [tpc EXCEPT ![t] = "barrier2"]
    /\ UNCHANGED <<nodes, edges, out_nodes, average_degree, column_bytes, pinned,
                   ptr, comp_row_offsets, req_bytes, comp_column_indices, heap,
                   argVars, num_threads, new_coo, edge_counts, edge_offsets, outerVars, pc>>

\* l.466: the thread's edge range starts in the row the previous range ends in
SameRowAsPrevious(t) ==
    /\ edge_start(t) > 0
    /\ At(coo, edge_start(t)).row = At(coo, edge_start(t) - 1).row

\* l.467: that row ends inside the thread's edge range
FirstRowEndsHere(t) ==
    \/ edge_end(t) = Len(coo)
    \/ At(coo, edge_end(t)).row # At(coo, edge_start(t)).row

\* l.464-470: after the second barrier, the boundary row
StitchReady(t) ==
    /\ pc = "parallel"
    /\ tpc[t] = "barrier2"
    /\ \A u \in Threads : tpc[u] \in {"barrier2", "barrier3"}

StitchDerefs(t) ==
    IF SameRowAsPrevious(t) /\ FirstRowEndsHere(t) THEN {"row_offsets"} ELSE {}

Stitch(t) ==
    /\ StitchReady(t)
    /\ NonNull(StitchDerefs(t))
    /\ IF SameRowAsPrevious(t) /\ FirstRowEndsHere(t)
       THEN /\ row_offsets' = Store(row_offsets, first_row(t) + 1, pointer[t])
            /\ fault' = [fault EXCEPT !.oob = @ \/ first_row(t) + 1 \notin DOMAIN row_offsets]
       ELSE UNCHANGED <<row_offsets, fault>>
    /\ tpc' = [tpc EXCEPT ![t] = "barrier3"]
    /\ UNCHANGED <<nodes, edges, out_nodes, average_degree, column_bytes, pinned,
                   ptr, comp_row_offsets, req_bytes, column_indices,
                   comp_column_indices, edge_values, heap, argVars,
                   num_threads, new_coo, edge_counts, edge_offsets, pointer, outerVars, pc>>

RECURSIVE WalkBack(_, _)
\* l.479: while (row_offsets[i] == -1) i--;  the index the walk stops at, or
\* -1 when it leaves the array
WalkBack(ro, i) ==
    IF i < 0 THEN 0 - 1
    ELSE IF ro[i] = Unset THEN WalkBack(ro, i - 1) ELSE i

RECURSIVE FillRange(_, _, _)
\* l.482-486: carry the previous entry into the unset entries from .. to-1
FillRange(ro, from, to) ==
    IF from >= to THEN ro
    ELSE LET before == FillRange(ro, from, to - 1)
         IN  IF before[to - 1] = Unset
             THEN [before EXCEPT ![to - 1] = before[to - 2]]
             ELSE before

\* l.476-479: the walk from the thread's first node leaves the array
WalksBelowZero(t) ==
    /\ row_offsets[node_start(t)] = Unset
    /\ WalkBack(row_offsets, node_start(t)) < 0

\* l.476-486: the row_offsets entries thread t reads in the fill pass: the
\* entry of its first node, the entries of the backward walk, and the
\* entries of its node range
FillReads(t) ==
    {node_start(t)}
    \cup (IF row_offsets[node_start(t)] = Unset
          THEN WalkBack(row_offsets, node_start(t)) .. node_start(t)
          ELSE {})
    \cup UNION {{node, node - 1} : node \in node_start(t) + 1 .. node_end(t) - 1}

\* l.476-486: the row_offsets entries thread t writes in the fill pass
FillWrites(t) ==
    {node \in {node_start(t)} \cup (node_start(t) + 1 .. node_end(t) - 1) :
        row_offsets[node] = Unset}

\* l.471-489: after the third barrier, the fill of the unset entries of the
\* thread's node range.  A read below row_offsets[0] is undefined: it
\* returns some value g.
FillReady(t) ==
    /\ pc = "parallel"
    /\ tpc[t] = "barrier3"
    /\ \A u \in Threads : tpc[u] \in {"barrier3", "joined"}

Fill(t) ==
    /\ FillReady(t)
    /\ NonNull({"row_offsets"})
    /\ \E g \in IF WalksBelowZero(t) THEN FreshValues ELSE {0} :
          LET ns == node_start(t)
              stop == WalkBack(row_offsets, ns)
              ro1 == IF row_offsets[ns] = Unset
                     THEN [row_offsets EXCEPT
                              ![ns] = IF stop < 0 THEN g ELSE row_offsets[stop]]
                     ELSE row_offsets
          IN  row_offsets' = FillRange(ro1, ns + 1, node_end(t))
    /\ fault' = [fault EXCEPT !.oob = @ \/ WalksBelowZero(t)]
    /\ edges' = IF t = 0 THEN edge_offsets[num_threads] ELSE edges
    /\ tpc' = [tpc EXCEPT ![t] = "joined"]
    /\ UNCHANGED <<nodes, out_nodes, average_degree, column_bytes, pinned,
                   ptr, comp_row_offsets, req_bytes, column_indices,
                   comp_column_indices, edge_values, heap, argVars,
                   num_threads, new_coo, edge_counts, edge_offsets, pointer, outerVars, pc>>

\* ------------------------------------------- the compression (l.494-548)
SetMax(S) == CHOOSE x \in S : \A y \in S : y <= x

\* the slots of row i
Slots(ro, i) == ro[i] .. ro[i + 1] - 1

\* l.496-503: column_indices_diff, a block of e words; a slot of no row is
\* never written, a slot of two rows keeps the later row's difference
DiffArray(ro, ci, n, e, fill) ==
    [j \in 0 .. e - 1 |->
        LET rows == {i \in 0 .. n - 1 : j \in Slots(ro, i)}
        IN  IF rows = {} THEN fill ELSE ci[j] - SetMax(rows)]

\* l.510-514: the row's largest abs(column_indices_diff[j])
RowMax(ro, diff, i) ==
    LET mags == {Abs(diff[j]) : j \in Slots(ro, i) \cap DOMAIN diff}
    IN  IF mags = {} THEN 0 ELSE SetMax(mags)

RECURSIVE ShiftCount(_)
\* l.522-525: while (max > 0) { max >>= 8; req_bytes[i]++; }
ShiftCount(m) == IF m > 0 THEN 1 + ShiftCount(m \div Pow2(ByteBits)) ELSE 0

\* a width of one byte whatever the row holds
OneByte(max) == 1

\* l.519-525: max *= 2 in the 32-bit SizeT, then the count of its bytes
RequiredBytes(max) == ShiftCount(TimesTwo(max))

RECURSIVE CompRowOffsets(_, _, _)
\* l.530-533: comp_row_offsets[i]
CompRowOffsets(ro, rb, i) ==
    IF i = 0 THEN 0
    ELSE (ro[i] - ro[i - 1]) * rb[i - 1] + CompRowOffsets(ro, rb, i - 1)

\* l.544: (mask & column_indices_diff[j]) >> 8*k, stored in a char: byte k
\* of the two's complement form of d (>> of a negative int keeps the sign,
\* as \div rounds down; the char keeps the low 8 bits)
EncodeByte(d, k) == (d \div Pow2(ByteBits * k)) % Pow2(ByteBits)

\* l.540-548: the bytes of the compressed column buffer, a block of cb bytes
CompressedBytes(ro, rb, cro, diff, n, cb, fill) ==
    [x \in 0 .. cb - 1 |->
        LET at == {w \in UNION {{<<i, j, k>> : j \in Slots(ro, i) \cap DOMAIN diff,
                                               k \in 0 .. rb[i] - 1} : i \in 0 .. n - 1} :
                      cro[w[1]] + rb[w[1]] * (w[2] - ro[w[1]]) + w[3] = x}
        IN  IF at = {} THEN fill
            ELSE LET w == CHOOSE w \in at : \A v \in at : v[1] <= w[1]
                 IN  EncodeByte(diff[w[2]], w[3])]

\* l.573-581
OutNodes(ro, n) == Cardinality({i \in 0 .. n - 1 : ro[i + 1] - ro[i] > 0})

\* l.492-581: the sequential tail of FromCoo after the parallel region.
\* column_indices_diff is allocated and never released; the block that
\* FromScratch gave comp_column_indices is replaced by a malloc'ed one.
FromCooTail ==
    LET ro == Store(row_offsets, nodes, edges)
        diff == DiffArray(ro, column_indices, nodes, edges, JunkValue)
        rb == [i \in DOMAIN req_bytes |->
                  IF i < nodes THEN RequiredBytes(RowMax(ro, diff, i)) ELSE req_bytes[i]]
        cro == [i \in 0 .. nodes |-> CompRowOffsets(ro, rb, i)]
        cb == cro[nodes]
        h1 == Alloc(heap, "malloc")
        h2 == Alloc(h1, "malloc")
    IN  /\ row_offsets' = ro
        /\ req_bytes' = rb
        /\ comp_row_offsets' = cro
        /\ column_bytes' = cb
        /\ heap' = h2
        /\ ptr' = [ptr EXCEPT !["comp_column_indices"] = Len(h2)]
        /\ comp_column_indices' = CompressedBytes(ro, rb, cro, diff, nodes, cb, JunkValue)
        /\ out_nodes' = OutNodes(ro, nodes)

\* the join of the parallel region and the return of FromCoo
TailReady == pc = "parallel" /\ \A t \in Threads : tpc[t] = "joined"

TailDerefs ==
    {"row_offsets", "comp_row_offsets"}
    \cup (IF nodes > 0 THEN {"req_bytes"} ELSE {})
    \cup (IF edges > 0 THEN {"column_indices"} ELSE {})

FromCooReturn ==
    /\ TailReady
    /\ NonNull(TailDerefs)
    /\ FromCooTail
    /\ pc' = "built"
    /\ last' = "FromCoo"
    /\ UNCHANGED <<nodes, edges, average_degree, pinned, column_indices, edge_values,
                   argVars, ompVars, rowVars, cache, builds, frees, marketVars, testVars, fault>>

\* ------------------------------------------------------------ the inputs
Tuple(n, k) == [row : 0 .. n - 1, col : 0 .. n - 1, val : {k}]

RECURSIVE TupleLists(_, _)
\* the tuple lists of length len over n nodes; the value of a tuple is its
\* position in the list, so that every tuple of the input is told apart
TupleLists(n, len) ==
    IF len = 0 THEN {<<>>}
    ELSE {Append(s, x) : s \in TupleLists(n, len - 1), x \in Tuple(n, len)}

RowOrdered(s) == \A i \in 1 .. Len(s) - 1 : s[i].row <= s[i + 1].row

NoPointers == [a \in ArrayNames |-> NULL]

\* l.74-90: Csr(pinned).  column_bytes is not set by the constructor.
Constructed(isPinned, cb) ==
    /\ nodes = 0
    /\ edges = 0
    /\ average_degree = 0
    /\ out_nodes = 0 - 1
    /\ column_bytes = cb
    /\ ptr = NoPointers
    /\ pinned = isPinned
    /\ row_offsets = <<>>
    /\ comp_row_offsets = <<>>
    /\ req_bytes = <<>>
    /\ column_indices = <<>>
    /\ comp_column_indices = <<>>
    /\ edge_values = <<>>
    /\ heap = <<>>

NoRow ==
    /\ rowId = 0
    /\ rowCols = <<>>
    /\ rowReq = 0
    /\ rowBytes = <<>>

NoFile == [exists |-> FALSE]

\* no operation yet, and no cache file
Untouched ==
    /\ last = "none"
    /\ builds = 0
    /\ frees = 0
    /\ cache = NoFile

\* no test driver is running
NoTest ==
    /\ rpc = "idle"
    /\ src = 0
    /\ quick_mode = FALSE
    /\ ref_file = FALSE
    /\ sources = <<>>
    /\ cur = 0
    /\ calls = <<>>
    /\ failures = 0
    /\ bc_values = <<>>
    /\ h_bc_values = <<>>
    /\ reference_bc_values = <<>>
    /\ reference_sigmas = <<>>
    /\ reference_labels = <<>>
    /\ written = {}
    /\ compared = {}
    /\ frontier = <<>>
    /\ search_depth = 0
    /\ back_iter = 0
    /\ check_value = FALSE
    /\ output_file = ""

\* no stream is being read
NoStream ==
    /\ f_in = <<>>
    /\ undirected = FALSE
    /\ reversed = FALSE
    /\ mpc = "idle"
    /\ retval = 0

NoRegion ==
    /\ num_threads = 0
    /\ tpc = <<>>
    /\ new_coo = <<>>
    /\ edge_counts = <<>>
    /\ edge_offsets = <<>>
    /\ pointer = <<>>

\* A store, and a caller about to build it from a tuple list.  A caller who
\* passes ordered_rows = true passes a list whose rows are in order.
Init ==
    /\ Constructed(FALSE, JunkValue)
    /\ NoRegion
    /\ NoRow
    /\ Untouched
    /\ NoStream
    /\ NoTest
    /\ coo_nodes \in 0 .. MaxNodes
    /\ coo \in UNION {TupleLists(coo_nodes, len) : len \in 0 .. MaxEdges}
    /\ ordered_rows \in BOOLEAN
    /\ ordered_rows => RowOrdered(coo)
    /\ load_edge_values \in BOOLEAN
    /\ pc = "ready"
    /\ fault = NoFault

Next ==
    \/ FromCoo
    \/ \E t \in Threads : Compact(t)
    \/ Single
    \/ \E t \in Threads : WritePass(t)
    \/ \E t \in Threads : Stitch(t)
    \/ \E t \in Threads : Fill(t)
    \/ FromCooReturn

Spec == Init /\ [][Next]_vars

\* FromCoo on a tuple list without tuples.  Every thread of the team runs
\* until it has left the parallel region (the barriers of l.437 and l.462
\* release a team all of whose threads arrive), so a call that can take a
\* step eventually takes one.
InitZero == Init /\ coo = <<>>

SpecZero == InitZero /\ [][Next]_vars /\ WF_vars(Next)

\* --------------------------------------- the compression of a single row
\* The compression treats every row by itself (l.509-528, l.540-548): the
\* row's id i and its column indices decide req_bytes[i] and the bytes of
\* its slots.  Vertex ids range over the whole int, so the row is drawn from
\* the ids at which a byte width changes.
RowLen == 2

IdSamples ==
    {0, 1, MaxInt - 1}
    \cup UNION {{Pow2(b * ByteBits - 1) - 1, Pow2(b * ByteBits - 1)} : b \in 1 .. 3}
    \cup {Pow2(IntBits - 2) - 1, Pow2(IntBits - 2)}

RECURSIVE ColumnLists(_, _)
\* the rows of len slots of vertex i: self-loops never reach a row (l.419)
ColumnLists(i, len) ==
    IF len = 0 THEN {<<>>}
    ELSE {Append(s, c) : s \in ColumnLists(i, len - 1), c \in IdSamples \ {i}}

InitRow ==
    /\ Constructed(FALSE, JunkValue)
    /\ NoRegion
    /\ Untouched
    /\ NoStream
    /\ NoTest
    /\ coo_nodes = 0
    /\ coo = <<>>
    /\ ordered_rows = FALSE
    /\ load_edge_values = FALSE
    /\ rowId \in IdSamples
    /\ rowCols \in UNION {ColumnLists(rowId, len) : len \in 0 .. RowLen}
    /\ rowReq = 0
    /\ rowBytes = <<>>
    /\ pc = "row"
    /\ fault = NoFault

\* l.500, l.509-528, l.540-548 for the row rowId
CompressRow ==
    /\ pc = "row"
    /\ LET diff == [s \in 1 .. Len(rowCols) |-> rowCols[s] - rowId]
           mags == {Abs(diff[s]) : s \in 1 .. Len(rowCols)}
           max == IF mags = {} THEN 0 ELSE SetMax(mags)
           b == RequiredBytes(max)
       IN  /\ rowReq' = b
           /\ rowBytes' = [s \in 1 .. Len(rowCols) |->
                              [k \in 0 .. b - 1 |-> EncodeByte(diff[s], k)]]
    /\ pc' = "row_done"
    /\ UNCHANGED <<storeVars, heap, argVars, ompVars, rowId, rowCols, cache, lifeVars, marketVars, testVars, fault>>

NextRow == CompressRow

SpecRow == InitRow /\ [][NextRow]_vars

\* ------------------------------------------------ the life of a store
Range(s) == {s[i] : i \in DOMAIN s}

\* FromCoo with the allocation of one of the arrays FromScratch requests
\* failing
FromCooNoMemory ==
    /\ pc = "ready"
    /\ builds < MaxBuilds
    /\ \E p \in 1 .. MaxThreads :
           \E a \in Range(Requested(load_edge_values, FALSE)) :
               FromCooEnter(coo, coo_nodes, ordered_rows, p, a)
    /\ UNCHANGED <<marketVars, testVars>>

\* a step of the builder that reads or writes through a null pointer
Crash ==
    /\ pc = "parallel"
    /\ \/ \E t \in Threads : CompactReady(t) /\ ~NonNull(CompactDerefs(t))
       \/ SingleReady /\ ~NonNull({"row_offsets"})
       \/ \E t \in Threads : WritePassReady(t) /\ ~NonNull(WritePassDerefs(t))
       \/ \E t \in Threads : StitchReady(t) /\ ~NonNull(StitchDerefs(t))
       \/ \E t \in Threads : FillReady(t) /\ ~NonNull({"row_offsets"})
       \/ TailReady /\ ~NonNull(TailDerefs)
    /\ pc' = "crashed"
    /\ fault' = [fault EXCEPT !.nullderef = TRUE]
    /\ UNCHANGED <<storeVars, heap, argVars, ompVars, outerVars>>

\* l.189-211: WriteBinary(file, nodes, edges, row_offsets, column_indices,
\* edge_values) of the built store; the values are written when the pointer
\* is not null
\* the first n elements of an array, as the 4-byte words written to a file
WordsOf(a, n) == [k \in 1 .. n |-> a[k - 1]]

\* a writer that leaves out the edge count
WordsWithoutCount(v, e, row, col, vals, hasVals) ==
    <<v>> \o WordsOf(row, v + 1) \o WordsOf(col, e)
        \o (IF hasVals THEN WordsOf(vals, e) ELSE <<>>)

\* l.197-207: the words of the file: v, e, v + 1 row offsets, e column
\* indices and, when edge_values is not null, e values (SizeT, VertexId and
\* Value are 4 bytes each)
FileWords(v, e, row, col, vals, hasVals) ==
    <<v, e>> \o WordsOf(row, v + 1) \o WordsOf(col, e)
        \o (IF hasVals THEN WordsOf(vals, e) ELSE <<>>)

\* cache.source is the store the file was written from; it is not in the
\* file and no operation reads it
WriteBinary ==
    /\ pc = "built"
    /\ ~cache.exists
    /\ cache' = [exists |-> TRUE,
                 words |-> FileWords(nodes, edges, row_offsets, column_indices, edge_values,
                                     ptr["edge_values"] # NULL),
                 source |-> [nodes |-> nodes, edges |-> edges, row_offsets |-> row_offsets,
                             column_indices |-> column_indices,
                             edge_values |-> edge_values]]
    /\ UNCHANGED <<storeVars, heap, argVars, ompVars, rowVars, lifeVars, marketVars, testVars, pc, fault>>

\* l.329-331: v and e are the first two words of the file
FileNodes == cache.words[1]
FileEdges == cache.words[2]

\* input.read of n words from position from on into an array that holds
\* fill: the words the file does not have are not read
ReadWords(from, n, fill) ==
    [i \in 0 .. n - 1 |->
        IF from + i <= Len(cache.words) THEN cache.words[from + i] ELSE fill]

\* the arrays FromCsr reads the file into (l.333-338)
FromCsrDerefs ==
    {"row_offsets"}
    \cup (IF FileEdges > 0 THEN {"column_indices"} ELSE {})
    \cup (IF FileEdges > 0 /\ load_edge_values THEN {"edge_values"} ELSE {})

\* l.318-357: FromCsr<load_edge_values>(file).  fill is what the fresh
\* blocks hold: FromCsr writes row_offsets, column_indices, edge_values and
\* out_nodes only, and a read of values the file does not have reads nothing.
FromCsrCall(fill, failing) ==
    LET st == FromScratchBlocks(load_edge_values, FALSE, failing)
        outcome == IF Exits(failing) THEN "exited"
                   ELSE IF \E a \in FromCsrDerefs : st.p[a] = NULL THEN "crashed"
                   ELSE "built"
        read == outcome = "built"
        v == FileNodes
        e == FileEdges
        row == ReadWords(3, v + 1, fill)
    IN  /\ nodes' = v
        /\ edges' = e
        /\ heap' = st.h
        /\ ptr' = st.p
        /\ row_offsets' = IF read THEN row ELSE Fresh(v + 1, fill)
        /\ comp_row_offsets' = Fresh(v + 1, fill)
        /\ req_bytes' = Fresh(v + 1, fill)
        /\ column_indices' = IF read THEN ReadWords(3 + (v + 1), e, fill) ELSE Fresh(e, fill)
        /\ comp_column_indices' = Fresh(e, fill)
        /\ edge_values' = IF ~load_edge_values THEN edge_values
                          ELSE IF read THEN ReadWords(3 + (v + 1) + e, e, fill)
                          ELSE Fresh(e, fill)
        /\ out_nodes' = IF read THEN OutNodes(row, v) ELSE out_nodes
        /\ last' = IF read THEN "FromCsr" ELSE last
        /\ fault' = IF outcome = "crashed" THEN [fault EXCEPT !.nullderef = TRUE] ELSE fault
        /\ pc' = outcome
        /\ builds' = builds + 1
        /\ frees' = 0
        /\ UNCHANGED <<average_degree, column_bytes, pinned, argVars, ompVars, rowVars, cache, marketVars, testVars>>

FromCsr ==
    /\ pc = "ready"
    /\ builds < MaxBuilds
    /\ cache.exists
    /\ \E fill \in FreshValues : FromCsrCall(fill, "none")

FromCsrNoMemory ==
    /\ pc = "ready"
    /\ builds < MaxBuilds
    /\ cache.exists
    /\ \E fill \in FreshValues :
           \E a \in Range(Requested(load_edge_values, FALSE)) : FromCsrCall(fill, a)

\* l.839-927: the order in which Free looks at the arrays
FreeOrder ==
    <<"row_offsets", "comp_row_offsets", "req_bytes", "column_indices",
      "comp_column_indices", "edge_values", "node_values">>

\* the deallocator Free uses for array a: edge_values and node_values are
\* always given to free (l.917-924)
DeallocatorOf(a) ==
    IF a \in {"edge_values", "node_values"} THEN "free"
    ELSE IF pinned THEN "cudaFreeHost" ELSE "free"

RECURSIVE ReleaseAll(_, _, _)
\* the heap after Free released the arrays of FreeOrder from position k on
\* whose pointer in p is not null
ReleaseAll(h, p, k) ==
    IF k > Len(FreeOrder) THEN h
    ELSE LET a == FreeOrder[k]
         IN  ReleaseAll(IF p[a] # NULL THEN Release(h, p[a], DeallocatorOf(a)) ELSE h,
                        p, k + 1)

\* a Free that forgets to reset the pointers
NotNulled(p) == p

\* the pointers after Free: each one it released is set to NULL
Nulled(p) == [a \in ArrayNames |-> NULL]

\* the effect of Free on the store
FreeStore ==
    /\ heap' = ReleaseAll(heap, ptr, 1)
    /\ ptr' = Nulled(ptr)
    /\ nodes' = 0
    /\ edges' = 0
    /\ row_offsets' = IF ptr["row_offsets"] # NULL THEN <<>> ELSE row_offsets
    /\ comp_row_offsets' = IF ptr["comp_row_offsets"] # NULL THEN <<>> ELSE comp_row_offsets
    /\ req_bytes' = IF ptr["req_bytes"] # NULL THEN <<>> ELSE req_bytes
    /\ column_indices' = IF ptr["column_indices"] # NULL THEN <<>> ELSE column_indices
    /\ comp_column_indices' =
           IF ptr["comp_column_indices"] # NULL THEN <<>> ELSE comp_column_indices
    /\ edge_values' = IF ptr["edge_values"] # NULL THEN <<>> ELSE edge_values
    /\ UNCHANGED <<out_nodes, average_degree, column_bytes, pinned>>

\* a call of Free by the owner of the store
Free ==
    /\ pc \in {"ready", "built"}
    /\ frees < MaxFrees
    /\ FreeStore
    /\ frees' = frees + 1
    /\ last' = "Free"
    /\ pc' = "ready"
    /\ UNCHANGED <<argVars, ompVars, rowVars, cache, builds, marketVars, testVars, fault>>

\* l.932-935: ~Csr() calls Free
Destroy ==
    /\ pc \in {"ready", "built"}
    /\ FreeStore
    /\ frees' = frees + 1
    /\ last' = "~Csr"
    /\ pc' = "destroyed"
    /\ UNCHANGED <<argVars, ompVars, rowVars, cache, builds, marketVars, testVars, fault>>

LifeNodes == 2
LifeEdges == 2

\* A store of either kind, whose column_bytes holds whatever the memory
\* held, and a caller with a tuple list.
InitLife ==
    /\ \E isPinned \in BOOLEAN : \E cb \in FreshValues : Constructed(isPinned, cb)
    /\ NoRegion
    /\ NoRow
    /\ Untouched
    /\ NoStream
    /\ NoTest
    /\ coo_nodes \in 0 .. LifeNodes
    /\ coo \in UNION {TupleLists(coo_nodes, len) : len \in 0 .. LifeEdges}
    /\ ordered_rows = FALSE
    /\ load_edge_values \in BOOLEAN
    /\ pc = "ready"
    /\ fault = NoFault

NextLife ==
    \/ Next
    \/ FromCooNoMemory
    \/ Crash
    \/ WriteBinary
    \/ FromCsr
    \/ FromCsrNoMemory
    \/ Free
    \/ Destroy

SpecLife == InitLife /\ [][NextLife]_vars

\* ------------------------------------------- ReadMarketStream (l.1000)
\* A line of the stream is a comment (its first character is '%') or it
\* starts with toks, the integers the sscanf of the line converts ("%lld
\* %lld %lld": at most three).  Lines are not empty.
MaxLines == 3
MaxEntries == 2
MarketThreads == 1

Failure == 0 - 1

TokenLists ==
    {<<>>}
    \cup {<<a>> : a \in 1 .. MaxNodes}
    \cup {<<a, b>> : a \in 1 .. MaxNodes, b \in 1 .. MaxNodes}
    \cup {<<a, b, c>> : a \in 1 .. MaxNodes, b \in 1 .. MaxNodes, c \in 1 .. MaxEntries}

Lines ==
    {[comment |-> TRUE, toks |-> <<>>]}
    \cup {[comment |-> FALSE, toks |-> t] : t \in TokenLists}

RECURSIVE Streams(_)
Streams(len) ==
    IF len = 0 THEN {<<>>}
    ELSE {Append(f, l) : f \in Streams(len - 1), l \in Lines}

IsData(l) == ~l.comment

\* the lines of the stream that are not comments
DataLines(f) == SelectSeq(f, IsData)

\* the indices of the edge lines lie within the dimension that the header
\* declares
InRange(f) ==
    LET data == DataLines(f)
    IN  (Len(data) > 0 /\ Len(data[1].toks) = 3) =>
            \A i \in 2 .. Len(data) :
                \A j \in 1 .. Len(data[i].toks) :
                    j <= 2 => data[i].toks[j] <= data[1].toks[1]

\* rand() % 64 (l.1122)
RandMod == 64
RandValues == {0, RandMod - 1}

\* l.1011-1014, l.1025: the locals of ReadMarketStream before the loop
ReadStart ==
    [edges_read |-> 0 - 1, nodes |-> 0, edges |-> 0, coo |-> <<>>,
     allocated |-> FALSE, ordered_rows |-> TRUE, ret |-> 0]

\* l.1148-1149: the tuple of an edge line
ForwardTuple(r, c, v) == [row |-> r - 1, col |-> c - 1, val |-> v]

\* an undirected ingestion that inserts the edge twice in the same direction
NotReversed(r, c, v) == [row |-> r - 1, col |-> c - 1, val |-> v]

\* l.1142-1143, l.1158-1159: the reverse tuple of an edge line
ReverseTuple(r, c, v) == [row |-> c - 1, col |-> r - 1, val |-> v]

\* l.1041-1086: the problem description
ReadHeader(toks, st, und) ==
    IF Len(toks) # 3 THEN [st EXCEPT !.ret = Failure]
    ELSE IF toks[1] # toks[2] THEN [st EXCEPT !.ret = Failure]
    ELSE [st EXCEPT !.nodes = toks[1],
                    !.edges = IF und THEN toks[3] * 2 ELSE toks[3],
                    !.allocated = TRUE,
                    !.edges_read = @ + 1]

\* l.1087-1169: an edge description; r is what rand() % 64 returns
ReadEdge(toks, st, r, und, rev) ==
    IF ~st.allocated THEN [st EXCEPT !.ret = Failure]
    ELSE IF st.edges_read >= st.edges THEN [st EXCEPT !.ret = Failure]
    ELSE IF Len(toks) < 2 THEN [st EXCEPT !.ret = Failure]
    ELSE LET v == IF ~load_edge_values THEN JunkValue
                  ELSE IF Len(toks) = 2 THEN r ELSE toks[3]
             first == IF rev /\ ~und
                      THEN ReverseTuple(toks[1], toks[2], v)
                      ELSE ForwardTuple(toks[1], toks[2], v)
             one == Append(st.coo, first)
         IN  [st EXCEPT !.coo = IF und
                                THEN Append(one, ReverseTuple(toks[1], toks[2], v))
                                ELSE one,
                        !.edges_read = IF und THEN @ + 2 ELSE @ + 1,
                        !.ordered_rows = FALSE]

\* l.1035-1169: one line of the stream
ReadLine(line, st, r, und, rev) ==
    IF line.comment THEN st
    ELSE IF st.edges_read = 0 - 1 THEN ReadHeader(line.toks, st, und)
    ELSE ReadEdge(line.toks, st, r, und, rev)

RECURSIVE ReadLines(_, _, _, _, _, _)
\* l.1027-1170: the loop over the lines from line k on, until the end of the
\* stream or the first error.  und and rev are the flags of the call, rnd[k]
\* is what rand() % 64 returns when line k has no value.
ReadLines(f, k, st, rnd, und, rev) ==
    IF k > Len(f) \/ st.ret # 0 THEN st
    ELSE ReadLines(f, k + 1,
                   ReadLine(f[k], st, IF k \in DOMAIN rnd THEN rnd[k] ELSE 0, und, rev),
                   rnd, und, rev)

\* the lines whose value is drawn by rand()
NeedRand(f) ==
    {k \in 1 .. Len(f) : load_edge_values /\ ~f[k].comment /\ Len(f[k].toks) = 2}

\* a reader that takes every stream with a header to be complete
NeverIncomplete(st) == FALSE

\* l.1178: fewer tuples were read than the header declares
Incomplete(st) == st.edges_read # st.edges

\* l.1172-1185: the checks after the loop
Rejected(st) ==
    \/ st.ret # 0
    \/ ~st.allocated
    \/ Incomplete(st)

\* l.1001-1185 and the call of FromCoo at l.1195: a call with undirected
\* among flags, whose builder runs with a team of one of teams threads.  The
\* stream is read; a rejected stream returns -1, an accepted one enters the
\* builder.
ReadMarketStreamCall(flags, teams) ==
    /\ mpc = "open"
    /\ pc = "ready"
    /\ \E und \in flags : \E rev \in BOOLEAN : \E rnd \in [NeedRand(f_in) -> RandValues] :
           LET st == ReadLines(f_in, 1, ReadStart, rnd, und, rev)
           IN  /\ undirected' = und
               /\ reversed' = rev
               /\ IF Rejected(st)
                  THEN /\ mpc' = "returned"
                       /\ retval' = Failure
                       /\ UNCHANGED <<storeVars, heap, argVars, ompVars, rowVars, cache,
                                      lifeVars, f_in, testVars, pc, fault>>
                  ELSE /\ \E p \in teams :
                              FromCooEnter(st.coo, st.nodes, st.ordered_rows, p, "none")
                       /\ mpc' = "building"
                       /\ UNCHANGED <<f_in, retval, testVars>>

\* a call of ReadMarketStream<load_edge_values>(f_in, csr, undirected, reversed)
ReadMarketStream == ReadMarketStreamCall(BOOLEAN, 1 .. MarketThreads)

\* a call of ReadMarketStream<load_edge_values>(f_in, csr, true, reversed)
ReadUndirected == ReadMarketStreamCall({TRUE}, 1 .. MaxThreads)

\* l.1195-1202: FromCoo has returned; free(coo); return 0
ReadMarketReturn ==
    /\ mpc = "building"
    /\ pc = "built"
    /\ mpc' = "returned"
    /\ retval' = 0
    /\ UNCHANGED <<storeVars, heap, argVars, ompVars, rowVars, cache, lifeVars,
                   f_in, undirected, reversed, testVars, pc, fault>>

\* a store, and a caller about to read the stream f into it
OpenStream(f) ==
    /\ Constructed(FALSE, JunkValue)
    /\ NoRegion
    /\ NoRow
    /\ Untouched
    /\ coo_nodes = 0
    /\ coo = <<>>
    /\ ordered_rows = TRUE
    /\ load_edge_values \in BOOLEAN
    /\ f_in = f
    /\ undirected = FALSE
    /\ reversed = FALSE
    /\ mpc = "open"
    /\ retval = 0
    /\ NoTest
    /\ pc = "ready"
    /\ fault = NoFault

InitMarket == \E f \in UNION {Streams(len) : len \in 0 .. MaxLines} : OpenStream(f)

NextMarket ==
    \/ ReadMarketStream
    \/ \E t \in Threads : Compact(t)
    \/ Single
    \/ \E t \in Threads : WritePass(t)
    \/ \E t \in Threads : Stitch(t)
    \/ \E t \in Threads : Fill(t)
    \/ FromCooReturn
    \/ ReadMarketReturn

SpecMarket == InitMarket /\ [][NextMarket]_vars

\* Undirected ingestion by a team of any size, of the streams that name
\* vertices of the graph they declare.
InitUndirected ==
    \E f \in UNION {Streams(len) : len \in 0 .. MaxLines} : InRange(f) /\ OpenStream(f)

NextUndirected ==
    \/ ReadUndirected
    \/ \E t \in Threads : Compact(t)
    \/ Single
    \/ \E t \in Threads : WritePass(t)
    \/ \E t \in Threads : Stitch(t)
    \/ \E t \in Threads : Fill(t)
    \/ FromCooReturn
    \/ ReadMarketReturn

SpecUndirected == InitUndirected /\ [][NextUndirected]_vars

\* ------------------------------------------ ReferenceBC (test_bc.cu l.169)
\* Value is float.  The centrality values are modelled as exact fractions
\* <<numerator, denominator>> in lowest terms, with a positive denominator.
RECURSIVE Gcd(_, _)
Gcd(a, b) == IF b = 0 THEN a ELSE Gcd(b, a % b)

Frac(n, d) ==
    LET g == Gcd(Abs(n), d)
    IN  IF n = 0 THEN <<0, 1>> ELSE <<n \div g, d \div g>>

FracOf(k) == <<k, 1>>
FracAdd(x, y) == Frac(x[1] * y[2] + y[1] * x[2], x[2] * y[2])
FracMul(x, y) == Frac(x[1] * y[1], x[2] * y[2])
FracDiv(x, y) == Frac(x[1] * y[2], x[2] * y[1])

\* a reference that leaves the dependencies as they are
Unscaled(x) == x

\* l.358-361: bc_values[i] *= 0.5f
Halved(x) == Frac(x[1], x[2] * 2)

\* the graph a store holds
Graph == [n |-> nodes, ro |-> row_offsets, ci |-> column_indices]

\* l.277-289: the state of the search before its first step
SearchStart(g, s) ==
    [source_path |-> [i \in 0 .. g.n - 1 |-> IF i = s THEN 0 ELSE 0 - 1],
     sigmas |-> [i \in 0 .. g.n - 1 |-> IF i = s THEN 1 ELSE 0],
     frontier |-> <<s>>,
     search_depth |-> 0]

\* a search that counts the path of the discovering edge only
VisitDiscovering(st, dequeued_node, neighbor) ==
    LET neighbor_dist == st.source_path[dequeued_node] + 1
    IN  IF st.source_path[neighbor] = 0 - 1
        THEN [source_path |-> [st.source_path EXCEPT ![neighbor] = neighbor_dist],
              sigmas |-> [st.sigmas EXCEPT ![neighbor] = @ + st.sigmas[dequeued_node]],
              frontier |-> Append(st.frontier, neighbor),
              search_depth |-> IF st.search_depth < neighbor_dist
                               THEN neighbor_dist ELSE st.search_depth]
        ELSE st

\* l.311-327: the edge from dequeued_node to neighbor
VisitNeighbor(st, dequeued_node, neighbor) ==
    LET neighbor_dist == st.source_path[dequeued_node] + 1
    IN  IF st.source_path[neighbor] = 0 - 1
        THEN [source_path |-> [st.source_path EXCEPT ![neighbor] = neighbor_dist],
              sigmas |-> [st.sigmas EXCEPT ![neighbor] = @ + st.sigmas[dequeued_node]],
              frontier |-> Append(st.frontier, neighbor),
              search_depth |-> IF st.search_depth < neighbor_dist
                               THEN neighbor_dist ELSE st.search_depth]
        ELSE IF st.source_path[neighbor] = neighbor_dist
        THEN [st EXCEPT !.sigmas[neighbor] = @ + st.sigmas[dequeued_node]]
        ELSE st

RECURSIVE VisitEdges(_, _, _, _, _)
\* l.308-328: the adjacency list of dequeued_node from edge on
VisitEdges(g, st, dequeued_node, edge, edges_end) ==
    IF edge >= edges_end THEN st
    ELSE VisitEdges(g, VisitNeighbor(st, dequeued_node, g.ci[edge]),
                    dequeued_node, edge + 1, edges_end)

RECURSIVE Search(_, _)
\* l.297-329: the breadth-first pass
Search(g, st) ==
    IF st.frontier = <<>> THEN st
    ELSE LET dequeued_node == Head(st.frontier)
         IN  Search(g, VisitEdges(g, [st EXCEPT !.frontier = Tail(@)], dequeued_node,
                                  g.ro[dequeued_node], g.ro[dequeued_node + 1]))

RECURSIVE BackEdgesOfPaths(_, _, _, _, _, _, _)
\* a backward pass that leaves out the 1 of (1 + dependency)
BackEdgesOfPaths(g, st, bc, iter, node, edge, edges_end) ==
    IF edge >= edges_end THEN bc
    ELSE LET neighbor == g.ci[edge]
             next == IF st.source_path[neighbor] = iter + 1
                     THEN [bc EXCEPT ![node] =
                              FracAdd(@, FracMul(FracDiv(FracOf(st.sigmas[node]),
                                                         FracOf(st.sigmas[neighbor])),
                                                 bc[neighbor]))]
                     ELSE bc
         IN  BackEdgesOfPaths(g, st, next, iter, node, edge + 1, edges_end)

RECURSIVE BackEdges(_, _, _, _, _, _, _)
\* l.344-353: the adjacency list of node, at level iter, from edge on
BackEdges(g, st, bc, iter, node, edge, edges_end) ==
    IF edge >= edges_end THEN bc
    ELSE LET neighbor == g.ci[edge]
             next == IF st.source_path[neighbor] = iter + 1
                     THEN [bc EXCEPT ![node] =
                              FracAdd(@, FracMul(FracDiv(FracOf(st.sigmas[node]),
                                                         FracOf(st.sigmas[neighbor])),
                                                 FracAdd(FracOf(1), bc[neighbor])))]
                     ELSE bc
         IN  BackEdges(g, st, next, iter, node, edge + 1, edges_end)

RECURSIVE BackNodes(_, _, _, _, _)
\* l.336-355: the nodes from node on
BackNodes(g, st, bc, iter, node) ==
    IF node >= g.n THEN bc
    ELSE BackNodes(g, st,
                   IF st.source_path[node] = iter
                   THEN BackEdges(g, st, bc, iter, node, g.ro[node], g.ro[node + 1])
                   ELSE bc,
                   iter, node + 1)

RECURSIVE BackLevels(_, _, _, _)
\* l.332-356: the levels from iter down to 1
BackLevels(g, st, bc, iter) ==
    IF iter <= 0 THEN bc
    ELSE BackLevels(g, st, BackNodes(g, st, bc, iter, 0), iter - 1)

\* l.330-356: the dependency of every node on the source of the search st
Dependencies(g, st) ==
    BackLevels(g, st, [i \in 0 .. g.n - 1 |-> FracOf(0)], (st.search_depth + 1) - 2)

\* l.271-373: ReferenceBC(graph, bc_values, ebc_values, sigmas, source_path,
\* src) for a source src # -1
SingleSourceBC(g, s) ==
    LET st == Search(g, SearchStart(g, s))
        bc == Dependencies(g, st)
    IN  [bc_values |-> [i \in 0 .. g.n - 1 |-> Halved(bc[i])],
         sigmas |-> st.sigmas,
         source_path |-> st.source_path]

\* ------------------------------------------------ RunTests (test_bc.cu l.396)
SweepNodes == 3
MaxFailures == 1

\* the undirected simple graphs on the vertices 0 .. n-1, as sets of edges
UndirectedGraphs(n) ==
    SUBSET {e \in SUBSET (0 .. n - 1) : Cardinality(e) = 2}

Neighbors(E, v) == {w \in UNION E : w # v /\ {v, w} \in E}

RECURSIVE Ascending(_)
\* the members of a set of integers in ascending order
Ascending(S) ==
    IF S = {} THEN <<>>
    ELSE LET m == CHOOSE x \in S : \A y \in S : x <= y
         IN  <<m>> \o Ascending(S \ {m})

RECURSIVE Adjacency(_, _, _)
\* the adjacency lists of the vertices from v on, one after the other
Adjacency(n, nb, v) ==
    IF v >= n THEN <<>>
    ELSE Ascending(nb[v]) \o Adjacency(n, nb, v + 1)

RECURSIVE Degrees(_, _)
\* the number of slots of the rows below v
Degrees(nb, v) == IF v = 0 THEN 0 ELSE Degrees(nb, v - 1) + Cardinality(nb[v - 1])

\* The store that FromCoo<loaded> builds, on a store just constructed, from
\* the tuples of a graph on n vertices without self-loops and duplicates, nb
\* giving the columns of each row and ev the value of each slot: the rows in
\* order, each row's columns in order; the blocks of FromScratch and of the
\* compression.
BuiltStore(n, nb, loaded, ev) ==
    LET ro == [i \in 0 .. n |-> Degrees(nb, i)]
        e == ro[n]
        ci == [k \in 0 .. e - 1 |-> Adjacency(n, nb, 0)[k + 1]]
        req == Requested(loaded, FALSE)
        diff == DiffArray(ro, ci, n, e, JunkValue)
        rb == [i \in 0 .. n |->
                  IF i < n THEN RequiredBytes(RowMax(ro, diff, i)) ELSE JunkValue]
        cro == [i \in 0 .. n |-> CompRowOffsets(ro, rb, i)]
    IN  /\ nodes = n
        /\ edges = e
        /\ average_degree = 0
        /\ out_nodes = OutNodes(ro, n)
        /\ column_bytes = cro[n]
        /\ pinned = FALSE
        /\ heap = [b \in 1 .. Len(req) + 2 |->
                      [by |-> "malloc", live |-> TRUE, released |-> 0, with |-> "none"]]
        /\ ptr = [a \in ArrayNames |->
                     IF a = "comp_column_indices" THEN Len(req) + 2
                     ELSE IF \E k \in DOMAIN req : req[k] = a
                     THEN CHOOSE k \in DOMAIN req : req[k] = a
                     ELSE NULL]
        /\ row_offsets = ro
        /\ comp_row_offsets = cro
        /\ req_bytes = rb
        /\ column_indices = ci
        /\ comp_column_indices = CompressedBytes(ro, rb, cro, diff, n, cro[n], JunkValue)
        /\ edge_values = ev

\* the arguments and the region of a FromCoo call that has returned are of
\* no concern to the driver
NoCall ==
    /\ coo = <<>>
    /\ coo_nodes = 0
    /\ ordered_rows = FALSE
    /\ load_edge_values = FALSE
    /\ NoRegion

\* an engine call: the operation, its source (or -1) and whether it
\* reported an error
Call(op, s, err) == [op |-> op, s |-> s, err |-> err]

\* the outcomes of an engine call: at most MaxFailures calls report an error
Outcomes == IF failures < MaxFailures THEN BOOLEAN ELSE {FALSE}

Issue(op, s, err) ==
    /\ calls' = Append(calls, Call(op, s, err))
    /\ failures' = IF err THEN failures + 1 ELSE failures

ZeroValues(n) == [i \in 0 .. n - 1 |-> FracOf(0)]

\* l.436-503: the host arrays, and the reference values unless quick_mode:
\* ReferenceBC when no ref_filename is given, the values of the file
\* otherwise (bc values only).  With src = -1 ReferenceBC writes the bc
\* values that brandes_betweenness_centrality (Boost) returns and no other
\* array (l.240-264).  Values that come from the file or from Boost are not
\* followed: written records that the array has been filled.
ReferenceStep ==
    /\ rpc = "start"
    /\ rpc' = "range"
    /\ IF quick_mode
       THEN /\ written' = {}
            /\ UNCHANGED <<reference_bc_values, reference_sigmas, reference_labels>>
       ELSE IF ref_file \/ src = 0 - 1
       THEN /\ written' = {"bc_values"}
            /\ UNCHANGED <<reference_bc_values, reference_sigmas, reference_labels>>
       ELSE LET r == SingleSourceBC(Graph, src)
            IN  /\ written' = {"bc_values", "sigmas", "labels"}
                /\ reference_bc_values' = r.bc_values
                /\ reference_sigmas' = r.sigmas
                /\ reference_labels' = r.source_path
    /\ UNCHANGED <<storeVars, heap, argVars, ompVars, rowVars, cache, lifeVars, marketVars,
                   src, quick_mode, ref_file, sources, cur, calls, failures,
                   bc_values, h_bc_values, compared, searchVars, check_value, output_file,
                   pc, fault>>

\* a driver that sweeps every vertex whatever the source asked for
WholeRange(s, n) == [k \in 1 .. n |-> k - 1]

\* l.509-519: start_src .. end_src - 1
SourceRange(s, n) == IF s = 0 - 1 THEN [k \in 1 .. n |-> k - 1] ELSE <<s>>

SetRange ==
    /\ rpc = "range"
    /\ rpc' = "memset"
    /\ sources' = SourceRange(src, nodes)
    /\ UNCHANGED <<storeVars, heap, argVars, ompVars, rowVars, cache, lifeVars, marketVars,
                   src, quick_mode, ref_file, cur, calls, failures, bc_values, h_bc_values,
                   referenceVars, check_value, output_file, pc, fault>>

\* what the steps of the sweep leave alone
SweepFrame ==
    UNCHANGED <<storeVars, heap, argVars, ompVars, rowVars, cache, lifeVars, marketVars,
                src, quick_mode, ref_file, sources, referenceVars,
                check_value, output_file, pc, fault>>

\* l.527-533: MemsetKernel(bc_values, 0)
Memset ==
    /\ rpc = "memset"
    /\ rpc' = "reset0"
    /\ bc_values' = ZeroValues(nodes)
    /\ Issue("Memset", 0 - 1, FALSE)
    /\ UNCHANGED <<cur, h_bc_values>>
    /\ SweepFrame

\* l.534-537: problem->Reset(0, ...); the value GRError returns is dropped
FirstReset ==
    /\ rpc = "reset0"
    /\ rpc' = "loop"
    /\ \E err \in Outcomes : Issue("Reset", 0, err)
    /\ UNCHANGED <<cur, bc_values, h_bc_values>>
    /\ SweepFrame

\* l.544-549: i < end_src; problem->Reset(i, ...)
ProblemReset ==
    /\ rpc = "loop"
    /\ cur < Len(sources)
    /\ rpc' = "enactor_reset"
    /\ \E err \in Outcomes : Issue("Reset", sources[cur + 1], err)
    /\ UNCHANGED <<cur, bc_values, h_bc_values>>
    /\ SweepFrame

\* l.550-551: enactor->Reset()
EnactorReset ==
    /\ rpc = "enactor_reset"
    /\ rpc' = "enact"
    /\ \E err \in Outcomes : Issue("EnactorReset", sources[cur + 1], err)
    /\ UNCHANGED <<cur, bc_values, h_bc_values>>
    /\ SweepFrame

\* an engine that keeps only the contribution of the last source
Overwritten(acc, g, s) ==
    Dependencies(g, Search(g, SearchStart(g, s)))

\* The effect of Enact(s) on the accumulators: the dependency of every
\* vertex on s is added to its accumulator.
Accumulated(acc, g, s) ==
    LET d == Dependencies(g, Search(g, SearchStart(g, s)))
    IN  [v \in 0 .. g.n - 1 |-> FracAdd(acc[v], d[v])]

\* l.552-554: enactor->Enact(i); ++i.  An Enact that reports an error adds
\* nothing.
Enact ==
    /\ rpc = "enact"
    /\ rpc' = "loop"
    /\ \E err \in Outcomes :
           /\ Issue("Enact", sources[cur + 1], err)
           /\ bc_values' = IF err THEN bc_values
                           ELSE Accumulated(bc_values, Graph, sources[cur + 1])
    /\ cur' = cur + 1
    /\ UNCHANGED h_bc_values
    /\ SweepFrame

\* a driver that scales inside the loop over the sources
ScaleEarly ==
    /\ rpc = "loop"
    /\ rpc' = IF cur >= Len(sources) THEN "extract" ELSE "loop"
    /\ bc_values' = [v \in DOMAIN bc_values |-> Halved(bc_values[v])]
    /\ Issue("Scale", 0 - 1, FALSE)
    /\ Len(calls) < 2 * SweepNodes + 8
    /\ UNCHANGED <<cur, h_bc_values>>
    /\ SweepFrame

\* l.544, l.555-561: i = end_src; MemsetScaleKernel(bc_values, 0.5)
Scale ==
    /\ rpc = "loop"
    /\ cur >= Len(sources)
    /\ rpc' = "extract"
    /\ bc_values' = [v \in DOMAIN bc_values |-> Halved(bc_values[v])]
    /\ Issue("Scale", 0 - 1, FALSE)
    /\ UNCHANGED <<cur, h_bc_values>>
    /\ SweepFrame

\* l.573-575: problem->Extract(h_sigmas, h_bc_values, h_ebc_values, h_labels)
Extract ==
    /\ rpc = "extract"
    /\ rpc' = "verify"
    /\ \E err \in Outcomes : Issue("Extract", 0 - 1, err)
    /\ h_bc_values' = bc_values
    /\ UNCHANGED <<cur, bc_values>>
    /\ SweepFrame

\* l.444-447: the reference arrays the driver compares (the others are NULL)
Checked ==
    IF quick_mode THEN {}
    ELSE IF src = 0 - 1 THEN {"bc_values", "ebc_values"}
    ELSE {"bc_values", "sigmas", "labels"}

\* l.578-633: CompareResults reads graph->edges elements of the edge array,
\* graph->nodes elements of the others
ElementsOf(a) == IF a = "ebc_values" THEN edges ELSE nodes

\* l.577-704 and main l.812-814: the comparisons, the statistics, the
\* cleanup; RunTests returns nothing and main returns 0
Verify ==
    /\ rpc = "verify"
    /\ rpc' = "done"
    /\ compared' = {a \in Checked : ElementsOf(a) > 0}
    /\ UNCHANGED <<storeVars, heap, argVars, ompVars, rowVars, cache, lifeVars, marketVars,
                   src, quick_mode, ref_file, sources, cur, calls, failures,
                   bc_values, h_bc_values, reference_bc_values, reference_sigmas, reference_labels,
                   written, searchVars, check_value, output_file, pc, fault>>

\* A store holding an undirected graph, and a driver configured with a
\* source (or -1), quick_mode or not, a reference file or not.
InitRun(most) ==
    /\ \E n \in 0 .. most : \E E \in UndirectedGraphs(n) :
           BuiltStore(n, [v \in 0 .. n - 1 |-> Neighbors(E, v)], FALSE, <<>>)
    /\ NoCall
    /\ NoRow
    /\ cache = NoFile
    /\ last = "FromCoo"
    /\ builds = 1
    /\ frees = 0
    /\ NoStream
    /\ rpc = "start"
    /\ src \in (0 - 1) .. (nodes - 1)
    /\ quick_mode \in BOOLEAN
    /\ ref_file \in BOOLEAN
    /\ sources = <<>>
    /\ cur = 0
    /\ calls = <<>>
    /\ failures = 0
    /\ bc_values = <<>>
    /\ h_bc_values = <<>>
    /\ reference_bc_values = <<>>
    /\ reference_sigmas = <<>>
    /\ reference_labels = <<>>
    /\ written = {}
    /\ compared = {}
    /\ frontier = <<>>
    /\ search_depth = 0
    /\ back_iter = 0
    /\ check_value = FALSE
    /\ output_file = ""
    /\ pc = "built"
    /\ fault = NoFault

InitSweep == InitRun(SweepNodes)

NextSweep ==
    \/ ReferenceStep
    \/ SetRange
    \/ Memset
    \/ FirstReset
    \/ ProblemReset
    \/ EnactorReset
    \/ Enact
    \/ Scale
    \/ Extract
    \/ Verify

SpecSweep == InitSweep /\ [][NextSweep]_vars

\* ------------------------------------------ BuildMarketGraph (csr.cuh l.1317)
NameLines == 2

\* l.1325-1328: dirname and basename of the input file
file_path == "dir"
file_name == "g.mtx"

\* the flag combinations (undirected, reversed, LOAD_VALUES) of a call
Combos == BOOLEAN \X BOOLEAN \X BOOLEAN

\* a naming that leaves LOAD_VALUES out
NameWithoutValues(und, rev, loadValues) ==
    file_path \o "/." \o file_name
        \o (IF und THEN ".ud." ELSE IF rev THEN ".rv." ELSE ".di.") \o "bin"

\* l.1330-1350: sprintf("%s/.%s.ud.%d.bin" | ".rv." | ".di.", file_path,
\* file_name, LOAD_VALUES ? 1 : 0)
CacheName(und, rev, loadValues) ==
    file_path \o "/." \o file_name
        \o (IF und THEN ".ud." ELSE IF rev THEN ".rv." ELSE ".di.")
        \o (IF loadValues THEN "1" ELSE "0") \o ".bin"

\* l.1333-1349: the flags handed on to the reader: (true, false) for an
\* undirected graph, (false, reversed) otherwise
Forwarded(und, rev) == IF und THEN <<TRUE, FALSE>> ELSE <<FALSE, rev>>

\* l.1317-1350: BuildMarketGraph<load_edge_values>(file_in, graph, undirected,
\* reversed) names the cache file and calls the reader with it
BuildMarketGraph ==
    /\ mpc = "call"
    /\ pc = "ready"
    /\ mpc' = "named"
    /\ output_file' = CacheName(undirected, reversed, load_edge_values)
    /\ UNCHANGED <<storeVars, heap, argVars, ompVars, rowVars, cache, lifeVars,
                   f_in, undirected, reversed, retval, driverVars, referenceVars,
                   check_value, pc, fault>>

\* l.1247: fopen(output_file, "r") succeeds
CacheHit == cache.exists /\ cache.name = output_file

\* l.1248-1255: the file exists: ReadCsrArrays, that is FromCsr
ReadCsrArrays ==
    /\ mpc = "named"
    /\ pc = "ready"
    /\ CacheHit
    /\ \E fill \in FreshValues : FromCsrCall(fill, "none")

\* l.1252-1255, l.1333-1350, l.1360: ReadCsrArrays has returned 0
ReadCsrReturn ==
    /\ mpc = "named"
    /\ pc = "built"
    /\ mpc' = "returned"
    /\ retval' = 0
    /\ UNCHANGED <<storeVars, heap, argVars, ompVars, rowVars, cache, lifeVars,
                   f_in, undirected, reversed, testVars, pc, fault>>

\* l.1257-1296: no such file: ReadMarketStream with the flags handed on; a
\* rejected stream makes the reader return -1 and BuildMarketGraph 1
\* (l.1335, 1343, 1351)
ReadMarketFile ==
    /\ mpc = "named"
    /\ pc = "ready"
    /\ ~CacheHit
    /\ \E rnd \in [NeedRand(f_in) -> RandValues] :
           LET to == Forwarded(undirected, reversed)
               st == ReadLines(f_in, 1, ReadStart, rnd, to[1], to[2])
           IN  IF Rejected(st)
               THEN /\ mpc' = "returned"
                    /\ retval' = 1
                    /\ UNCHANGED <<storeVars, heap, argVars, ompVars, rowVars, cache,
                                   lifeVars, pc, fault>>
               ELSE /\ \E p \in 1 .. MarketThreads :
                           FromCooEnter(st.coo, st.nodes, st.ordered_rows, p, "none")
                    /\ mpc' = "building"
                    /\ UNCHANGED retval
    /\ UNCHANGED <<f_in, undirected, reversed, testVars>>

\* a cache file left by an earlier run for the flag combination c: the store
\* of one node without edges
CacheFor(c) ==
    [exists |-> TRUE,
     name |-> CacheName(c[1], c[2], c[3]),
     words |-> FileWords(1, 0, Fresh(2, 0), <<>>, <<>>, FALSE),
     source |-> [nodes |-> 1, edges |-> 0, row_offsets |-> Fresh(2, 0),
                 column_indices |-> <<>>, edge_values |-> <<>>]]

\* a store just constructed, a caller about to build the graph of a file
\* with some flag combination, and possibly the cache file of a combination
InitName ==
    /\ Constructed(FALSE, JunkValue)
    /\ NoRegion
    /\ NoRow
    /\ cache \in {NoFile} \cup {CacheFor(c) : c \in Combos}
    /\ last = "none"
    /\ builds = 0
    /\ frees = 0
    /\ coo_nodes = 0
    /\ coo = <<>>
    /\ ordered_rows = TRUE
    /\ load_edge_values \in BOOLEAN
    /\ f_in \in UNION {Streams(len) : len \in 0 .. NameLines}
    /\ undirected \in BOOLEAN
    /\ reversed \in BOOLEAN
    /\ mpc = "call"
    /\ retval = 0
    /\ NoTest
    /\ pc = "ready"
    /\ fault = NoFault

NextName ==
    \/ BuildMarketGraph
    \/ ReadCsrArrays
    \/ ReadCsrReturn
    \/ ReadMarketFile
    \/ \E t \in Threads : Compact(t)
    \/ Single
    \/ \E t \in Threads : WritePass(t)
    \/ \E t \in Threads : Stitch(t)
    \/ \E t \in Threads : Fill(t)
    \/ FromCooReturn
    \/ ReadMarketReturn

SpecName == InitName /\ [][NextName]_vars

\* ------------------------------------------------- CheckValue (csr.cuh l.708)
CheckNodes == 3
MaxValue == 2

\* the directed graphs on the vertices 0 .. n-1 without self-loops
DirectedGraphs(n) ==
    SUBSET {a \in (0 .. n - 1) \X (0 .. n - 1) : a[1] # a[2]}

Successors(A, v) == {a[2] : a \in {b \in A : b[1] = v}}

\* l.708-732: false as soon as a slot in the row of an edge's destination
\* leads back to the edge's source with another value than the edge's (the
\* values of the inputs are whole numbers, which the conversion to int of
\* l.717 leaves as they are), true when no slot does
CheckValue ==
    \A node \in 0 .. nodes - 1 :
        \A edge \in row_offsets[node] .. row_offsets[node + 1] - 1 :
            LET src_node == node
                dst_node == column_indices[edge]
                edge_value == edge_values[edge]
            IN  \A r_edge \in row_offsets[dst_node] .. row_offsets[dst_node + 1] - 1 :
                    column_indices[r_edge] = src_node
                        => edge_values[r_edge] = edge_value

\* a call of CheckValue on a built store that holds the edge values, or
\* holds no edge at all
CheckValueCall ==
    /\ pc = "built"
    /\ rpc = "idle"
    /\ edges = 0 \/ ptr["edge_values"] # NULL
    /\ rpc' = "checked"
    /\ check_value' = CheckValue
    /\ UNCHANGED <<storeVars, heap, argVars, ompVars, rowVars, cache, lifeVars, marketVars,
                   src, quick_mode, ref_file, sources, cur, calls, failures,
                   bc_values, h_bc_values, referenceVars, output_file, pc, fault>>

\* a call of CheckValue on a store built without edge values: l.717 reads
\* through the null edge_values
CheckValueCrash ==
    /\ pc = "built"
    /\ rpc = "idle"
    /\ edges > 0
    /\ ptr["edge_values"] = NULL
    /\ pc' = "crashed"
    /\ fault' = [fault EXCEPT !.nullderef = TRUE]
    /\ UNCHANGED <<storeVars, heap, argVars, ompVars, outerVars>>

\* a store built, with or without edge values, from a directed graph
InitCheck ==
    /\ \E n \in 0 .. CheckNodes : \E A \in DirectedGraphs(n) : \E loaded \in BOOLEAN :
           \E ev \in IF loaded THEN [0 .. Cardinality(A) - 1 -> 1 .. MaxValue] ELSE {<<>>} :
               /\ BuiltStore(n, [v \in 0 .. n - 1 |-> Successors(A, v)], loaded, ev)
               /\ load_edge_values = loaded
    /\ coo = <<>>
    /\ coo_nodes = 0
    /\ ordered_rows = FALSE
    /\ NoRegion
    /\ NoRow
    /\ cache = NoFile
    /\ last = "FromCoo"
    /\ builds = 1
    /\ frees = 0
    /\ NoStream
    /\ NoTest
    /\ pc = "built"
    /\ fault = NoFault

NextCheck ==
    \/ CheckValueCall
    \/ CheckValueCrash

SpecCheck == InitCheck /\ [][NextCheck]_vars

\* ------------------------------------------- the sweep in any source order
\* the orders in which the sources of a set can be swept
SweepOrders(S) ==
    {p \in [1 .. Cardinality(S) -> S] : \A i, j \in DOMAIN p : p[i] = p[j] => i = j}

\* the sources of l.509-519, swept in some order
SetOrder ==
    /\ rpc = "range"
    /\ rpc' = "memset"
    /\ sources' \in SweepOrders(Range(SourceRange(src, nodes)))
    /\ UNCHANGED <<storeVars, heap, argVars, ompVars, rowVars, cache, lifeVars, marketVars,
                   src, quick_mode, ref_file, cur, calls, failures, bc_values, h_bc_values,
                   referenceVars, check_value, output_file, pc, fault>>

NextOrder ==
    \/ ReferenceStep
    \/ SetOrder
    \/ Memset
    \/ FirstReset
    \/ ProblemReset
    \/ EnactorReset
    \/ Enact
    \/ Scale
    \/ Extract
    \/ Verify

SpecOrder == InitSweep /\ [][NextOrder]_vars

\* ------------------------------------------- the reference, source by source
BcNodes == 4

\* RunTests with a source given, no quick mode and no reference file: the
\* reference values are those of ReferenceBC's own search (l.271-373)
InitReference ==
    /\ InitRun(BcNodes)
    /\ src # 0 - 1
    /\ ~quick_mode
    /\ ~ref_file

NextReference == ReferenceStep

SpecReference == InitReference /\ [][NextReference]_vars

\* ------------------------------- ReferenceBC for one source, step by step
\* the arrays and locals of the search, as the record the operators take
SearchState ==
    [source_path |-> reference_labels, sigmas |-> reference_sigmas,
     frontier |-> frontier, search_depth |-> search_depth]

\* what the steps of ReferenceBC leave alone
SearchFrame ==
    UNCHANGED <<storeVars, heap, argVars, ompVars, rowVars, cache, lifeVars, marketVars,
                src, quick_mode, ref_file, sources, cur, calls, failures,
                bc_values, h_bc_values, compared, check_value, output_file, pc, fault>>

\* l.277-289: the arrays are initialized and the source is queued
SearchInit ==
    /\ rpc = "start"
    /\ ~quick_mode /\ ~ref_file /\ src # 0 - 1
    /\ LET st == SearchStart(Graph, src)
       IN  /\ reference_labels' = st.source_path
           /\ reference_sigmas' = st.sigmas
           /\ frontier' = st.frontier
           /\ search_depth' = st.search_depth
    /\ reference_bc_values' = [i \in 0 .. nodes - 1 |-> FracOf(0)]
    /\ rpc' = "search"
    /\ UNCHANGED <<written, back_iter>>
    /\ SearchFrame

\* l.297-329: one turn of the while loop: a node is dequeued and its
\* adjacency list is visited
Dequeue ==
    /\ rpc = "search"
    /\ frontier # <<>>
    /\ LET dequeued_node == Head(frontier)
           st == VisitEdges(Graph, [SearchState EXCEPT !.frontier = Tail(@)],
                            dequeued_node,
                            row_offsets[dequeued_node], row_offsets[dequeued_node + 1])
       IN  /\ reference_labels' = st.source_path
           /\ reference_sigmas' = st.sigmas
           /\ frontier' = st.frontier
           /\ search_depth' = st.search_depth
    /\ UNCHANGED <<rpc, reference_bc_values, written, back_iter>>
    /\ SearchFrame

\* l.330-332: the queue is empty; search_depth++ and iter = search_depth - 2
SearchEnd ==
    /\ rpc = "search"
    /\ frontier = <<>>
    /\ search_depth' = search_depth + 1
    /\ back_iter' = (search_depth + 1) - 2
    /\ rpc' = "levels"
    /\ UNCHANGED <<reference_labels, reference_sigmas, reference_bc_values, frontier,
                   written>>
    /\ SearchFrame

\* l.332-356: one turn of the backward loop: the nodes of level iter
Level ==
    /\ rpc = "levels"
    /\ back_iter > 0
    /\ reference_bc_values' =
           BackNodes(Graph, SearchState, reference_bc_values, back_iter, 0)
    /\ back_iter' = back_iter - 1
    /\ UNCHANGED <<rpc, reference_labels, reference_sigmas, frontier, search_depth,
                   written>>
    /\ SearchFrame

\* l.358-373: the values are halved and ReferenceBC returns
Halve ==
    /\ rpc = "levels"
    /\ back_iter <= 0
    /\ reference_bc_values' = [i \in 0 .. nodes - 1 |-> Halved(reference_bc_values[i])]
    /\ written' = {"bc_values", "sigmas", "labels"}
    /\ rpc' = "range"
    /\ UNCHANGED <<reference_labels, reference_sigmas, searchVars>>
    /\ SearchFrame

NextSearch ==
    \/ SearchInit
    \/ Dequeue
    \/ SearchEnd
    \/ Level
    \/ Halve

SpecSearch == InitReference /\ [][NextSearch]_vars

\* ------------------------------------------- Csr::GetAverageDegree (l.777)
RECURSIVE StreamingMean(_, _)
\* l.781-786: mean after the rows 0 .. node - 1, as an exact fraction
StreamingMean(ro, node) ==
    IF node = 0 THEN FracOf(0)
    ELSE LET mean == StreamingMean(ro, node - 1)
             degree == FracOf(ro[node] - ro[node - 1])
         IN  FracAdd(mean, FracDiv(FracAdd(degree, FracMul(FracOf(0 - 1), mean)),
                                   FracOf(node)))

\* l.787: static_cast<SizeT>(mean) drops the fraction
Truncated(x) == IF x[1] >= 0 THEN x[1] \div x[2] ELSE 0 - ((0 - x[1]) \div x[2])

\* l.777-790: the mean is computed when average_degree is 0 and kept in
\* average_degree; the call returns average_degree
GetAverageDegree ==
    /\ pc \in {"ready", "built"}
    /\ average_degree' = IF average_degree = 0
                         THEN Truncated(StreamingMean(row_offsets, nodes))
                         ELSE average_degree
    /\ last' = "GetAverageDegree"
    /\ UNCHANGED <<nodes, edges, out_nodes, column_bytes, pinned, ptr, row_offsets,
                   comp_row_offsets, req_bytes, column_indices, comp_column_indices,
                   edge_values, heap, argVars, ompVars, rowVars, cache, builds, frees,
                   marketVars, testVars, pc, fault>>

DegreeNodes == 2
DegreeEdges == 2

\* the caller builds the store from a tuple list of its choice, with one
\* thread
BuildGraph ==
    /\ pc = "ready"
    /\ builds < MaxBuilds
    /\ \E n \in 0 .. DegreeNodes :
           \E c \in UNION {TupleLists(n, len) : len \in 0 .. DegreeEdges} :
               FromCooEnter(c, n, FALSE, 1, "none")
    /\ UNCHANGED <<marketVars, testVars>>

\* A store that is built, written, freed, loaded and asked for its average
\* degree in any order.
InitDegree ==
    /\ Constructed(FALSE, JunkValue)
    /\ NoRegion
    /\ NoRow
    /\ Untouched
    /\ NoStream
    /\ NoTest
    /\ coo_nodes = 0
    /\ coo = <<>>
    /\ ordered_rows = FALSE
    /\ load_edge_values = FALSE
    /\ pc = "ready"
    /\ fault = NoFault

NextDegree ==
    \/ BuildGraph
    \/ \E t \in Threads : Compact(t)
    \/ Single
    \/ \E t \in Threads : WritePass(t)
    \/ \E t \in Threads : Stitch(t)
    \/ \E t \in Threads : Fill(t)
    \/ FromCooReturn
    \/ WriteBinary
    \/ FromCsr
    \/ Free
    \/ GetAverageDegree

SpecDegree == InitDegree /\ [][NextDegree]_vars

\* ------------------------------------------------------------ the claims
\* C1: in every store FromCoo returns, for every thread count and every
\* interleaving the barriers allow, row_offsets[i] <= row_offsets[i+1] for
\* all 0 <= i < nodes, and row_offsets[nodes] = edges.
C1_RowOffsetsMonotone ==
    pc = "built" =>
        /\ \A i \in 0 .. nodes - 1 : row_offsets[i] <= row_offsets[i + 1]
        /\ row_offsets[nodes] = edges

\* the columns of the slots of row i that lie in column_indices
RowColumns(i) == [j \in Slots(row_offsets, i) \cap DOMAIN column_indices |-> column_indices[j]]

\* C2: whatever ordered_rows is, the store FromCoo returns has no slot j of
\* a row i with column_indices[j] = i, and no two slots of a row with the
\* same column.
C2_NoSelfLoopNoDuplicate ==
    pc = "built" =>
        \A i \in 0 .. nodes - 1 :
            \A j \in DOMAIN RowColumns(i) :
                /\ RowColumns(i)[j] # i
                /\ \A j2 \in DOMAIN RowColumns(i) :
                       j2 # j => RowColumns(i)[j2] # RowColumns(i)[j]

\* the value of b little-endian bytes read as a signed (two's complement)
\* number; no bytes read as 0
DecodeDelta(bytes, b) ==
    IF b = 0 THEN 0
    ELSE LET top == IF bytes[b - 1] >= Pow2(ByteBits - 1)
                    THEN bytes[b - 1] - Pow2(ByteBits) ELSE bytes[b - 1]
             RECURSIVE Low(_)
             Low(k) == IF k < 0 THEN 0 ELSE bytes[k] * Pow2(ByteBits * k) + Low(k - 1)
         IN  top * Pow2(ByteBits * (b - 1)) + Low(b - 2)

\* C3: for every slot of a compressed row i, the req_bytes[i] little-endian
\* bytes of the slot, decoded as a signed delta, plus i give the slot's
\* column index.
C3_RoundTrip ==
    pc = "row_done" =>
        \A s \in 1 .. Len(rowCols) :
            DecodeDelta(rowBytes[s], rowReq) + rowId = rowCols[s]

\* the largest |column - i| of the row
RowMagnitude ==
    IF rowCols = <<>> THEN 0
    ELSE SetMax({Abs(rowCols[s] - rowId) : s \in 1 .. Len(rowCols)})

\* 2 * m < 2^(8b), without forming a number beyond the int
FitsIn(m, b) ==
    IF b = 0 THEN m = 0
    ELSE IF b * ByteBits - 1 >= IntBits - 1 THEN TRUE
    ELSE m < Pow2(b * ByteBits - 1)

\* C4: req_bytes[i] is the least number of bytes b with
\* 2 * max|column - i| < 2^(8b): 0 for an empty row, at least 1 for a
\* non-empty one, for every delta magnitude of the int type.
C4_RequiredBytesMinimal ==
    pc = "row_done" =>
        /\ FitsIn(RowMagnitude, rowReq)
        /\ \A b \in 0 .. rowReq - 1 : ~FitsIn(RowMagnitude, b)
        /\ rowCols = <<>> => rowReq = 0
        /\ rowCols # <<>> => rowReq >= 1


\* C5: every store, built by FromCoo or loaded by FromCsr, has a populated
\* compressed index: comp_row_offsets[0] = 0, comp_row_offsets[i+1] -
\* comp_row_offsets[i] = (row_offsets[i+1] - row_offsets[i]) * req_bytes[i]
\* for every row i, and comp_row_offsets[nodes] = column_bytes.
C5_CompressedIndexPopulated ==
    pc = "built" =>
        /\ comp_row_offsets[0] = 0
        /\ \A i \in 0 .. nodes - 1 :
               comp_row_offsets[i + 1] - comp_row_offsets[i]
                   = (row_offsets[i + 1] - row_offsets[i]) * req_bytes[i]
        /\ comp_row_offsets[nodes] = column_bytes

\* C6: Free is idempotent.  Every call of Free (by the owner or by the
\* destructor) leaves every array pointer null, nodes = 0 and edges = 0, and
\* no block released more than once; a call that follows another Free
\* changes no field of the store and releases nothing.
C6_FreeIdempotent ==
    [][frees' = frees + 1 =>
           /\ ptr' = NoPointers
           /\ nodes' = 0
           /\ edges' = 0
           /\ \A b \in DOMAIN heap' : heap'[b].released <= 1
           /\ frees >= 1 => UNCHANGED <<storeVars, heap>>]_vars

\* a store that was built and freed, and then freed again by its destructor
C6_Witness ==
    /\ last = "~Csr"
    /\ frees = 2
    /\ \E b \in DOMAIN heap : heap[b].released = 1

\* the deallocator that matches an allocator
Matching(how) == IF how = "cudaHostAlloc" THEN "cudaFreeHost" ELSE "free"

\* C7: after Free, in the pinned and the non-pinned mode and whatever
\* constructed the store, every block allocated for it has been released,
\* and released with the deallocator matching its allocator.
C7_ReleasedWithMatchingDeallocator ==
    (frees >= 1 /\ pc \in {"ready", "destroyed"}) =>
        \A b \in DOMAIN heap :
            /\ ~heap[b].live
            /\ heap[b].with = Matching(heap[b].by)

\* C8: FromScratch does not return, and no step after it runs, with a
\* requested array whose allocation failed: its pointer is never null in
\* the builder, in the loader or in the store they return.
C8_AllocationFailureAborts ==
    pc \in {"parallel", "built", "crashed"} =>
        \A a \in Range(Requested(load_edge_values, FALSE)) : ptr[a] # NULL

\* the stream with header "3 3 2" and the edge lines "1 2 1" and "2 3 1"
PathStream ==
    <<[comment |-> FALSE, toks |-> <<3, 3, 2>>],
      [comment |-> FALSE, toks |-> <<1, 2, 1>>],
      [comment |-> FALSE, toks |-> <<2, 3, 1>>]>>

\* the number of edge lines "a b ..." of the stream f
EdgeLines(f, a, b) ==
    Cardinality({i \in 2 .. Len(DataLines(f)) :
                    /\ Len(DataLines(f)[i].toks) >= 2
                    /\ DataLines(f)[i].toks[1] = a
                    /\ DataLines(f)[i].toks[2] = b})

\* the number of tuples (r, c) of the list s
Tuples(s, r, c) == Cardinality({i \in 1 .. Len(s) : s[i].row = r /\ s[i].col = c})

WellFormed(f) ==
    LET data == DataLines(f)
    IN  /\ Len(data) >= 1
        /\ Len(data[1].toks) = 3
        /\ data[1].toks[1] = data[1].toks[2]
        /\ Len(data) - 1 = data[1].toks[3]
        /\ \A i \in 2 .. Len(data) : Len(data[i].toks) >= 2

ActiveSet == IF src = 0 - 1 THEN 0 .. nodes - 1 ELSE {src}

\* the positions in the trace of the calls of an operation
CallsOf(op) == {k \in 1 .. Len(calls) : calls[k].op = op}

\* the loop over the sources has been left
SweepOver == rpc \in {"extract", "verify", "done"}

\* C11: the engine calls of a sweep are sequential and alternate per
\* source: every Enact is for a source of the active set and is directly
\* preceded by the Reset calls (problem, then enactor) for that same source;
\* no source is enacted twice; a Reset for another source is issued only
\* once the Enact of every active source reset before it has returned; and
\* when the loop is left every source of the active set has exactly one
\* Enact.
C11_SequentialAlternation ==
    /\ \A k \in CallsOf("Enact") :
           /\ calls[k].s \in ActiveSet
           /\ k > 2
           /\ calls[k - 1] = Call("EnactorReset", calls[k].s, calls[k - 1].err)
           /\ calls[k - 2] = Call("Reset", calls[k].s, calls[k - 2].err)
           /\ \A j \in CallsOf("Enact") : j # k => calls[j].s # calls[k].s
    /\ \A k \in CallsOf("Reset") : \A j \in CallsOf("Reset") :
           (j < k /\ calls[j].s # calls[k].s /\ calls[j].s \in ActiveSet)
               => \E m \in CallsOf("Enact") : j < m /\ m < k /\ calls[m].s = calls[j].s
    /\ SweepOver =>
           \A s \in ActiveSet : Cardinality({k \in CallsOf("Enact") : calls[k].s = s}) = 1

C11_Witness ==
    /\ rpc = "done"
    /\ src = 0 - 1
    /\ nodes = SweepNodes
    /\ Cardinality(CallsOf("Enact")) = SweepNodes

\* C12: the accumulators are zeroed once, before any Reset or Enact; the
\* 0.5 scaling happens at most once, after the Enact of every source of the
\* active set and before no Enact; Extract is called only after the scaling
\* (so never while a source still lacks its Enact); a finished run has
\* zeroed once and scaled once.
C12_ZeroScaleExtract ==
    /\ Cardinality(CallsOf("Memset")) <= 1
    /\ \A k \in CallsOf("Reset") \cup CallsOf("Enact") : \E m \in CallsOf("Memset") : m < k
    /\ Cardinality(CallsOf("Scale")) <= 1
    /\ \A k \in CallsOf("Scale") :
           /\ \A s \in ActiveSet : \E m \in CallsOf("Enact") : m < k /\ calls[m].s = s
           /\ \A m \in CallsOf("Enact") : m < k
    /\ \A k \in CallsOf("Extract") : \E m \in CallsOf("Scale") : m < k
    /\ rpc = "done" =>
           /\ Cardinality(CallsOf("Memset")) = 1
           /\ Cardinality(CallsOf("Scale")) = 1
           /\ Cardinality(CallsOf("Extract")) = 1

C12_Witness ==
    /\ rpc = "done"
    /\ Len(sources) >= 2
    /\ CallsOf("Extract") # {}
    /\ failures = 0

\* C13: once a Reset or an Enact has reported an error, no Reset or Enact
\* for another source, no scaling and no Extract is issued, and the run does
\* not end as a successful one (main returning 0).
C13_SweepAbandoned ==
    \A j \in CallsOf("Reset") \cup CallsOf("Enact") :
        calls[j].err =>
            /\ rpc # "done"
            /\ \A k \in 1 .. Len(calls) :
                   k > j =>
                       /\ calls[k].op \notin {"Scale", "Extract"}
                       /\ calls[k].op \in {"Reset", "Enact"} => calls[k].s = calls[j].s


\* C16: when the reference values are computed (no reference file), every
\* reference array of which the verification reads an element has been
\* written by the reference computation of that run.
C16_ComparedArraysWritten ==
    (rpc = "done" /\ ~ref_file) => compared \subseteq written


RECURSIVE SweepFrom(_, _, _, _)
\* the accumulators after the sources order[k], order[k+1], ... have been
\* enacted on top of acc
SweepFrom(g, order, k, acc) ==
    IF k > Len(order) THEN acc
    ELSE SweepFrom(g, order, k + 1, Accumulated(acc, g, order[k]))

\* the centrality values of a sweep of the sources in the given order
SweepResult(g, order) ==
    LET acc == SweepFrom(g, order, 1, ZeroValues(g.n))
    IN  [v \in 0 .. g.n - 1 |-> Halved(acc[v])]

\* no engine call of the run has reported an error
NoError == \A k \in 1 .. Len(calls) : ~calls[k].err

Adjacent(u, v) ==
    \E k \in row_offsets[u] .. row_offsets[u + 1] - 1 : column_indices[k] = v

\* the walks from s to t over k vertices
Walks(s, t, k) ==
    {p \in [1 .. k -> 0 .. nodes - 1] :
        /\ p[1] = s
        /\ p[k] = t
        /\ \A i \in 1 .. k - 1 : Adjacent(p[i], p[i + 1])}

RECURSIVE ShortestFrom(_, _, _)
\* the shortest paths from s to t, looking among the walks over k or more
\* vertices (a shortest path visits no vertex twice)
ShortestFrom(s, t, k) ==
    IF k > nodes THEN {}
    ELSE IF Walks(s, t, k) # {} THEN Walks(s, t, k)
    ELSE ShortestFrom(s, t, k + 1)

ShortestPaths(s, t) == ShortestFrom(s, t, 1)

\* the fraction of the shortest s-t paths that pass through v
PairDependency(s, t, v) ==
    LET all == ShortestPaths(s, t)
        through == {p \in all : \E i \in DOMAIN p : p[i] = v}
    IN  IF all = {} THEN FracOf(0)
        ELSE Frac(Cardinality(through), Cardinality(all))

RECURSIVE SumOver(_, _)
\* the sum of the values f takes on S
SumOver(f, S) ==
    IF S = {} THEN FracOf(0)
    ELSE LET x == CHOOSE y \in S : TRUE
         IN  FracAdd(f[x], SumOver(f, S \ {x}))

\* Brandes betweenness of v: the sum over the unordered pairs {s, t},
\* s # v # t, of the fraction of the shortest s-t paths through v
Betweenness(v) ==
    LET pairs == {q \in (0 .. nodes - 1) \X (0 .. nodes - 1) :
                      q[1] < q[2] /\ q[1] # v /\ q[2] # v}
    IN  SumOver([q \in pairs |-> PairDependency(q[1], q[2], v)], pairs)

\* the store holds the triangle 0-1, 1-2, 2-0
Triangle ==
    /\ nodes = 3
    /\ \A u, v \in 0 .. 2 : u # v => Adjacent(u, v)

\* C15: once the reference has run for the source src, its centrality
\* values for src plus those ReferenceBC computes for every other source add
\* up, for every vertex, to the vertex's Brandes betweenness (each
\* single-source value being half the dependency); on the triangle the sum
\* is 0 for every vertex.
C15_ReferenceIsBrandes ==
    rpc = "range" =>
        \A v \in 0 .. nodes - 1 :
            LET others == (0 .. nodes - 1) \ {src}
                sum == FracAdd(reference_bc_values[v],
                           SumOver([s \in others |-> SingleSourceBC(Graph, s).bc_values[v]],
                                   others))
            IN  /\ sum = Betweenness(v)
                /\ Triangle => sum = FracOf(0)

\* the reference has run on the cycle 0-1-2-3-0: two shortest paths between
\* opposite vertices, betweenness 1/2 for every vertex
C15_Witness ==
    /\ rpc = "range"
    /\ nodes = 4
    /\ edges = 8
    /\ \A v \in 0 .. 3 : Adjacent(v, (v + 1) % 4)
    /\ reference_sigmas[(src + 2) % 4] = 2
    /\ \A v \in 0 .. 3 : Betweenness(v) = Frac(1, 2)


\* ----------------------------------------------------------- the symmetry
\* the value of the edge (u, v) in slot k of row u
SlotsOf(u, v) ==
    {k \in row_offsets[u] .. row_offsets[u + 1] - 1 : column_indices[k] = v}

\* every edge (u, v) of the store has a reverse edge (v, u) with its value
Symmetric ==
    \A u \in 0 .. nodes - 1 :
        \A k \in row_offsets[u] .. row_offsets[u + 1] - 1 :
            \E r \in SlotsOf(column_indices[k], u) : edge_values[r] = edge_values[k]

\* C17: CheckValue returns true exactly when every edge of the store has a
\* reverse edge with an equal value.
C17_CheckValueIffSymmetric ==
    rpc = "checked" => (check_value <=> Symmetric)


\* ---------------------------------------------------------- the round trip
\* a store has been loaded from the file that WriteBinary wrote
Reloaded == pc = "built" /\ last = "FromCsr"

\* C18: a store loaded by FromCsr from the file WriteBinary wrote has the
\* node and edge counts of the store the file was written from, the same
\* row offsets and column indices element by element, the same edge values
\* when values are held, and out_nodes is the number of its rows of
\* non-zero degree (rows that hold at least one slot).
C18_BinaryRoundTrip ==
    Reloaded =>
        /\ nodes = cache.source.nodes
        /\ edges = cache.source.edges
        /\ \A i \in 0 .. nodes : row_offsets[i] = cache.source.row_offsets[i]
        /\ \A k \in 0 .. edges - 1 : column_indices[k] = cache.source.column_indices[k]
        /\ load_edge_values =>
               \A k \in 0 .. edges - 1 : edge_values[k] = cache.source.edge_values[k]
        /\ out_nodes = Cardinality({i \in 0 .. nodes - 1 :
                                       row_offsets[i] < row_offsets[i + 1]})

C18_Witness ==
    /\ Reloaded
    /\ load_edge_values
    /\ edges = LifeEdges
    /\ out_nodes = LifeNodes


\* ------------------------------------------------------ the cache file name
\* the flag combination of the call in progress
Combo == <<undirected, reversed, load_edge_values>>

\* the name has been computed
Named == mpc # "call"

\* C19 as stated: no other flag combination than that of the call maps to
\* the cache file name the call computed.
C19_DistinctCombosDistinctNames ==
    Named =>
        \A c \in Combos : c # Combo => CacheName(c[1], c[2], c[3]) # output_file

\* C19, amended: a flag combination maps to the cache file name the call
\* computed exactly when it has the call's has-values setting and is built
\* as the same kind of graph (the flags handed on to the reader are those of
\* the call: an undirected build ignores reversed).
C19_NameDeterminesBuild ==
    Named =>
        \A c \in Combos :
            CacheName(c[1], c[2], c[3]) = output_file
                <=> /\ Forwarded(c[1], c[2]) = Forwarded(undirected, reversed)
                    /\ c[3] = load_edge_values

\* an undirected, reversed call has loaded the cache file of the undirected,
\* not reversed combination
C19_Witness ==
    /\ mpc = "returned"
    /\ undirected
    /\ reversed
    /\ last = "FromCsr"
    /\ cache.exists
    /\ cache.name = CacheName(TRUE, FALSE, load_edge_values)
    /\ output_file = cache.name


\* ------------------------------------------------------- the zero-edge build
\* the store of nodes vertices without edges, built without a fault
ZeroStore ==
    /\ pc = "built"
    /\ fault = NoFault
    /\ nodes = coo_nodes
    /\ edges = 0
    /\ \A i \in 0 .. nodes : row_offsets[i] = 0
    /\ \A i \in 0 .. nodes - 1 : req_bytes[i] = 0
    /\ column_bytes = 0

WritesDone ==
    /\ pc = "parallel"
    /\ \A t \in Threads : tpc[t] \in {"barrier2", "barrier3"}

\* the slots of column_indices and edge_values that thread t writes
WrittenSlots(t) == {edge + edge_offsets[t] : edge \in 0 .. Len(new_coo[t]) - 1}

\* thread t writes a row_offsets entry in the stitching pass
Stitches(t) == SameRowAsPrevious(t) /\ FirstRowEndsHere(t)

\* the row that straddles the boundary at the start of thread t's edge range
StraddlingRow(t) == At(coo, edge_start(t)).row

\* the offset at which row r ends: the number of surviving tuples of the
\* rows up to r
RowEnd(r) ==
    Cardinality({edge \in 0 .. Len(coo) - 1 : Survives(coo, edge) /\ At(coo, edge).row <= r})

\* C21: the threads write pairwise disjoint slot ranges, thread t exactly
\* [edge_offsets[t], edge_offsets[t+1]), which together cover the slots
\* 0 .. edge_offsets[num_threads] - 1; and in the stitching pass a thread
\* that writes a row_offsets entry writes the entry of the row that
\* straddles its boundary, with the offset at which that row ends, and no
\* other thread writes that entry.
C21_DisjointWritesSingleStitcher ==
    WritesDone =>
        /\ \A t \in Threads :
               WrittenSlots(t) = edge_offsets[t] .. edge_offsets[t + 1] - 1
        /\ \A t, u \in Threads : t # u => WrittenSlots(t) \cap WrittenSlots(u) = {}
        /\ UNION {WrittenSlots(t) : t \in Threads} = 0 .. edge_offsets[num_threads] - 1
        /\ \A t \in Threads :
               Stitches(t) =>
                   /\ first_row(t) = StraddlingRow(t)
                   /\ pointer[t] = RowEnd(StraddlingRow(t))
                   /\ \A u \in Threads :
                          (u # t /\ Stitches(u)) => first_row(u) # first_row(t)


\* every thread has left the stitching pass and none has begun to fill
StitchDone ==
    /\ pc = "parallel"
    /\ \A t \in Threads : tpc[t] = "barrier3"

\* C27: after the stitching pass row_offsets[0] is still 0, no backward
\* walk of the fill pass reads an index below 0, and the built store holds
\* no -1 in row_offsets[0 .. nodes].
C27_FillCompletesOffsets ==
    /\ StitchDone => row_offsets[0] = 0
    /\ \A t \in Threads : FillReady(t) => ~WalksBelowZero(t)
    /\ pc = "built" => \A node \in 0 .. nodes : row_offsets[node] # Unset


\* ------------------------------------------------ the sequential reference
RECURSIVE KeepFirst(_)
\* the tuples of the sorted list s that are no self-loops and are the first
\* of their (row, column) pair
KeepFirst(s) ==
    IF s = <<>> THEN <<>>
    ELSE LET rest == KeepFirst(SubSeq(s, 1, Len(s) - 1))
             x == s[Len(s)]
         IN  IF /\ x.row # x.col
                /\ \A k \in 1 .. Len(s) - 1 : s[k].row # x.row \/ s[k].col # x.col
             THEN Append(rest, x)
             ELSE rest

\* sort by (row, column), drop the self-loops, keep the first of every run
Reference == KeepFirst(omp_sort(coo))

\* the rows laid out one after the other
ReferenceOffsets ==
    [node \in 0 .. coo_nodes |->
        Cardinality({k \in 1 .. Len(Reference) : Reference[k].row < node})]

\* C26: for every tuple list in (row, column) order, sorted by the builder
\* or handed over sorted, every thread count and every schedule, the store
\* FromCoo returns has the edges, row_offsets, column_indices and
\* edge_values of the sequential reference.
C26_BuilderRefinesSequential ==
    (pc = "built" /\ coo = omp_sort(coo)) =>
        /\ edges = Len(Reference)
        /\ \A node \in 0 .. nodes : row_offsets[node] = ReferenceOffsets[node]
        /\ \A k \in 0 .. Len(Reference) - 1 :
               /\ column_indices[k] = Reference[k + 1].col
               /\ load_edge_values => edge_values[k] = Reference[k + 1].val


\* the (row, column) pairs of the tuple list that are no self-loops
Pairs == {<<coo[k].row, coo[k].col>> : k \in {j \in 1 .. Len(coo) : coo[j].row # coo[j].col}}

\* the slot of pair p: the number of pairs before it in (row, column) order
SlotOfPair(p) ==
    Cardinality({q \in Pairs : q[1] < p[1] \/ (q[1] = p[1] /\ q[2] < p[2])})

\* the first tuple of pair p in the list
FirstOfPair(p) ==
    LET first == CHOOSE k \in 1 .. Len(coo) :
                     /\ <<coo[k].row, coo[k].col>> = p
                     /\ \A j \in 1 .. k - 1 : <<coo[j].row, coo[j].col>> # p
    IN  coo[first]

\* a run of equal pairs lies across the boundary between two threads
RunStraddles ==
    \E t \in Threads :
        /\ 0 < edge_start(t)
        /\ edge_start(t) < Len(coo)
        /\ At(coo, edge_start(t)).row = At(coo, edge_start(t) - 1).row
        /\ At(coo, edge_start(t)).col = At(coo, edge_start(t) - 1).col
        /\ At(coo, edge_start(t)).row # At(coo, edge_start(t)).col

\* C23: in a store built with edge values from a list in (row, column)
\* order, the one slot of every pair holds the column of the pair and the
\* value of the first tuple of that pair in the list.
C23_FirstPayloadSurvives ==
    (pc = "built" /\ load_edge_values /\ coo = omp_sort(coo)) =>
        \A p \in Pairs :
            /\ column_indices[SlotOfPair(p)] = p[2]
            /\ edge_values[SlotOfPair(p)] = FirstOfPair(p).val

\* a store built by several threads from a list with a run of equal pairs
\* across a thread boundary
C23_Witness ==
    /\ pc = "built"
    /\ load_edge_values
    /\ coo = omp_sort(coo)
    /\ num_threads > 1
    /\ RunStraddles
    /\ edges > 0


\* C22: a thread reads what another thread wrote only after a barrier: the
\* prefix sum is taken over the counts every thread has recorded, a thread
\* in its write pass finds the finished prefix sum, a thread stitches only
\* when every thread has left its write pass, and in the fill pass no
\* thread reads a row_offsets entry that another thread writes in that
\* pass (looked at where the stitching pass has left row_offsets[0] at 0).
C22_ReadsOrderedByBarriers ==
    /\ SingleReady => \A t \in Threads : edge_counts[t] = Len(new_coo[t])
    /\ \A t \in Threads :
           WritePassReady(t) =>
               \A i \in 0 .. num_threads : edge_offsets[i] = PrefixSum(edge_counts, i)
    /\ \A t \in Threads :
           StitchReady(t) => \A u \in Threads : tpc[u] # "write"
    /\ (StitchDone /\ row_offsets[0] = 0) =>
           \A t, u \in Threads : t # u => FillReads(t) \cap FillWrites(u) = {}


\* the slots of row u
RowSlots(u) == row_offsets[u] .. row_offsets[u + 1] - 1

\* the edges (u, v, value) of the store
EdgesOfStore ==
    UNION {{<<u, column_indices[k], edge_values[k]>> :
               k \in RowSlots(u) \cap DOMAIN column_indices \cap DOMAIN edge_values} :
           u \in 0 .. nodes - 1}

\* every row lies within the arrays and every edge has its reverse with the
\* same value
ValueSymmetric ==
    /\ \A u \in 0 .. nodes - 1 : RowSlots(u) \subseteq DOMAIN column_indices
    /\ \A e \in EdgesOfStore : <<e[2], e[1], e[3]>> \in EdgesOfStore

\* C28: the store that an undirected ingestion with edge values returns is
\* value-symmetric: every stored (u, v) has a stored (v, u) with the same
\* value, also when the stream lists an undirected edge several times, in
\* either orientation, with different values.
C28_UndirectedValueSymmetric ==
    (mpc = "returned" /\ retval = 0 /\ undirected /\ load_edge_values) => ValueSymmetric


\* C29: every tuple that ReadMarketStream hands to the builder has its row
\* and its column in 0 .. nodes - 1, and every column the returned store
\* holds is a vertex.
C29_TuplesWithinDimension ==
    /\ (mpc \in {"building", "returned"} /\ builds = 1) =>
           \A i \in 1 .. Len(coo) :
               /\ coo[i].row \in 0 .. coo_nodes - 1
               /\ coo[i].col \in 0 .. coo_nodes - 1
    /\ (mpc = "returned" /\ retval = 0) =>
           \A k \in 0 .. edges - 1 : column_indices[k] \in 0 .. nodes - 1


\* ------------------------------------------------------ the average degree
\* the integer part of the mean degree of the rows the store holds; 0 for
\* a store without rows
MeanDegree ==
    IF nodes = 0 THEN 0 ELSE (row_offsets[nodes] - row_offsets[0]) \div nodes

\* C30: whatever builds, frees and earlier calls came before, the value a
\* call of GetAverageDegree returns is the integer part of the mean degree
\* of what the store holds at the call.
C30_AverageDegreeOfContents ==
    [][GetAverageDegree => average_degree' = MeanDegree]_vars


\* ------------------------------------------------- the single-source search
\* the breadth-first distance from s to t, -1 when t cannot be reached
Distance(s, t) ==
    LET all == ShortestPaths(s, t)
    IN  IF all = {} THEN 0 - 1
        ELSE Cardinality(DOMAIN (CHOOSE p \in all : TRUE)) - 1

\* the neighbours of v one level nearer to the source
Predecessors(v) ==
    {u \in 0 .. nodes - 1 : Adjacent(u, v) /\ reference_labels[u] = reference_labels[v] - 1}

\* the neighbours of v one level further from the source
Successors1(v) ==
    {w \in 0 .. nodes - 1 : Adjacent(v, w) /\ reference_labels[w] = reference_labels[v] + 1}

\* C24: after the forward pass from src every label is the breadth-first
\* distance from src (-1 when unreachable), sigma[src] is 1, and the sigma
\* of every other reached vertex is the sum of the sigmas of its neighbours
\* one level nearer, which is the number of its shortest paths; and the
\* sigma of a vertex is final when the vertex is dequeued.
C24_ForwardPass ==
    /\ rpc = "levels" =>
           /\ \A v \in 0 .. nodes - 1 : reference_labels[v] = Distance(src, v)
           /\ reference_sigmas[src] = 1
           /\ \A v \in 0 .. nodes - 1 :
                  (v # src /\ reference_labels[v] # 0 - 1) =>
                      /\ FracOf(reference_sigmas[v]) =
                             SumOver([u \in Predecessors(v) |-> FracOf(reference_sigmas[u])],
                                     Predecessors(v))
                      /\ reference_sigmas[v] = Cardinality(ShortestPaths(src, v))
    /\ (rpc = "search" /\ frontier # <<>>) =>
           reference_sigmas[Head(frontier)] = Cardinality(ShortestPaths(src, Head(frontier)))

\* the forward pass has ended on a graph of 4 vertices in which some vertex
\* at distance 2 has two shortest paths
C24_Witness ==
    /\ rpc = "levels"
    /\ nodes = 4
    /\ \E v \in 0 .. nodes - 1 : reference_labels[v] = 2 /\ reference_sigmas[v] = 2

\* the dependency of v by the recurrence over its successors
DependencySum(v) ==
    SumOver([w \in Successors1(v) |->
                FracMul(FracDiv(FracOf(reference_sigmas[v]), FracOf(reference_sigmas[w])),
                        FracAdd(FracOf(1), reference_bc_values[w]))],
            Successors1(v))

\* the value the recurrence gives a vertex at distance 1 or more; the source
\* and the unreachable vertices have none
Dependency(v) == IF reference_labels[v] >= 1 THEN DependencySum(v) ELSE FracOf(0)

\* C25: the backward pass goes down the levels one by one: a step changes
\* only the vertices of its level, giving each the sum over its successors
\* w one level further of sigma(v) / sigma(w) * (1 + dependency(w)); while
\* the pass runs every vertex above the current level already has its
\* final dependency; and when it ends every vertex at distance 1 or more
\* has the value of the recurrence (0 at the maximum depth), while the
\* source and the unreachable vertices still have 0.
C25_BackwardPass ==
    /\ [][Level =>
            /\ back_iter' = back_iter - 1
            /\ \A v \in 0 .. nodes - 1 :
                   reference_bc_values'[v] =
                       IF reference_labels[v] = back_iter
                       THEN DependencySum(v) ELSE reference_bc_values[v]]_vars
    /\ [](rpc = "levels" =>
            \A v \in 0 .. nodes - 1 :
                reference_labels[v] > back_iter => reference_bc_values[v] = DependencySum(v))
    /\ []((rpc = "levels" /\ back_iter <= 0) =>
            \A v \in 0 .. nodes - 1 : reference_bc_values[v] = Dependency(v))

\* the backward pass has ended on a graph of 4 vertices with dependencies at
\* the distances 1 and 2
C25_Witness ==
    /\ rpc = "levels"
    /\ back_iter = 0
    /\ nodes = 4
    /\ \E v, w \in 0 .. nodes - 1 :
           /\ reference_labels[v] = 1
           /\ reference_labels[w] = 2
           /\ reference_bc_values[v] # FracOf(0)
           /\ reference_bc_values[w] # FracOf(0)

===============================================================================
